---- MODULE Spec2Model ----
(***************************************************************************)
(* A model of three parts of rpgp:                                         *)
(*   - the message recognizer `next` of src/composed/message/parser.rs     *)
(*     (specification Spec; SpecFair for its termination),                 *)
(*   - the SEIPDv2 chunked AEAD container of                               *)
(*     src/packet/sym_encrypted_protected_data.rs (specification SpecAead; *)
(*     SpecWire for packets as they may arrive from the wire), and         *)
(*   - key packets, Padding packets, packet headers and PKESK payloads of  *)
(*     src/packet/key, src/packet/padding.rs and src/types (specification  *)
(*     SpecPacket).                                                        *)
(***************************************************************************)
EXTENDS Integers, Sequences, FiniteSets, TLC

(***************************************************************************)
(* Bounds of the model.                                                    *)
(***************************************************************************)
\* the packet source yields at most this many packets before it ends
MaxPackets == 4
\* or a longer run of at most this many ESK packets, and the edata packet
MaxEsks == 65

(***************************************************************************)
(* Part 1: the message recognizer.                                         *)
(***************************************************************************)
VARIABLES
    pc,        \* position of `next`: "top" (loop of line 20), "esk" (loop of line 41), "done"
    consumed,  \* the packets the packet source has yielded so far, in order
    eof,       \* the packet source has returned None
    esks,      \* `esks` of line 35
    stack,     \* the Signature / OnePassSignature packets of the pending recursive calls
    returned,  \* what the innermost call of `next` returned
    result     \* what the outermost call of `next` returned

parserVars == <<pc, consumed, eof, esks, stack, returned, result>>

\* Part 2 (the SEIPDv2 container), declared here so that every action can
\* leave the other part alone.
VARIABLES
    apc,          \* position: "start", "enc_loop", "enc_done", "enc_err", "dec_loop", "dec_done", "panic"
    inp,          \* the arguments of encrypt_seipdv2 (salt: what rng.fill yields)
    info,         \* `info` of aead_setup
    message_key,  \* `message_key` of aead_setup
    nonce,        \* `nonce`, updated after every chunk
    chunk_index,  \* `chunk_index`
    pos,          \* bytes the chunks() / chunks_mut() iterator has handed out
    out,          \* `out`
    out_len,      \* `out_len`
    packet,       \* the SymEncryptedProtectedData (Data::V2) that encrypt_seipdv2 returned
    enc_result,   \* Ok / Err of encrypt_seipdv2
    tampered,     \* the packet's data was altered after encryption
    altered,      \* how: "no", an octet replaced ("octet"), cut short ("cut"),
                  \* chunks removed before the final tag ("dropped")
    dec_key,      \* `session_key` of decrypt
    dec_result,   \* Result<Vec<u8>> of decrypt
    calls         \* the AEAD calls of the running operation: nonce, associated data, index

aeadVars == <<apc, inp, info, message_key, nonce, chunk_index, pos, out, out_len,
              packet, enc_result, tampered, altered, dec_key, dec_result, calls>>

\* Part 3 (key packets and Padding packets), declared here for the same reason.
VARIABLES
    kpc,       \* position: "start", "built", "written", "reparsed", "done",
               \* "header" (write_header ran), "esk" (a PKESK payload was read or made)
    kin,       \* the operation that built the packet, and its arguments
    pkt,       \* what the constructor or the parser returned
    krest,     \* the input the parser left unread
    wbytes,    \* what to_writer returned: the bytes written, or the error
    wlen,      \* what write_len returned
    wframed,   \* the packet with its header, as written
    reparsed,  \* what parsing the written bytes with the packet's header returned
    hashed,    \* the octets imprint fed to the hasher
    kid,       \* what key_id returned
    pkesk      \* what PkeskBytes::from_buf or encrypt returned

packetVars == <<kpc, kin, pkt, krest, wbytes, wlen, wframed, reparsed, hashed, kid, pkesk>>

vars == <<parserVars, aeadVars, packetVars>>

\* a packet: its tag, the version octet of its body, and whether its body
\* can be read (try_from_reader, drain and the readers' new succeed)
Pkt(t, v, ok) == [tag |-> t, ver |-> v, ok |-> ok]

\* Tag::SymKeyEncryptedSessionKey | Tag::PublicKeyEncryptedSessionKey
EskTags == {"PublicKeyEncryptedSessionKey", "SymKeyEncryptedSessionKey"}
\* Tag::SymEncryptedData | Tag::SymEncryptedProtectedData
EdataTags == {"SymEncryptedData", "SymEncryptedProtectedData"}
SkipTags == {"Padding", "Marker"}

\* The packets the source may yield.  `ver` is the version octet of the body
\* for ESK and SEIPD packets (5 stands for a version of neither family) and 0
\* for the packets whose version the recognizer never looks at.  PublicKey
\* stands for the tags that no arm of `next` names.
GoodPackets ==
    {Pkt("PublicKeyEncryptedSessionKey", v, TRUE) : v \in {3, 6}}
    \cup {Pkt("SymKeyEncryptedSessionKey", v, TRUE) : v \in {4, 5, 6}}
    \cup {Pkt("SymEncryptedProtectedData", v, TRUE) : v \in {1, 2}}
    \cup {Pkt(t, 0, TRUE) : t \in {"SymEncryptedData", "Signature", "OnePassSignature",
                                   "CompressedData", "LiteralData", "Padding", "Marker",
                                   "PublicKey"}}
\* the packets whose body cannot be read, one of each tag
BadPackets ==
    {Pkt(t, 0, FALSE) : t \in {"PublicKeyEncryptedSessionKey", "SymKeyEncryptedSessionKey",
                               "SymEncryptedProtectedData", "SymEncryptedData",
                               "Signature", "OnePassSignature", "CompressedData",
                               "LiteralData", "Padding", "Marker"}}
PacketAlphabet == GoodPackets \cup BadPackets

\* Result<Option<Message>>
Ok(m) == [kind |-> "Some", msg |-> m, err |-> ""]
None == [kind |-> "None", msg |-> <<>>, err |-> ""]
Err(e) == [kind |-> "Err", msg |-> <<>>, err |-> e]
NoResult == [kind |-> "running", msg |-> <<>>, err |-> ""]

\* Message::Encrypted { esk, edata }
Encrypted(esk, edata) == [variant |-> "Encrypted", esk |-> esk, edata |-> edata]
\* Message::Literal / Message::Compressed
Leaf(variant, p) == [variant |-> variant, packet |-> p]
\* Message::Signed / Message::SignedOnePass
Signed(sigPacket, inner) ==
    [variant |-> IF sigPacket.tag = "Signature" THEN "Signed" ELSE "SignedOnePass",
     signature |-> sigPacket, inner |-> inner]

\* esk_filter with the SKESK version test left out
esk_filter_pkesk_only(esk, pkesk_allowed, skesk_allowed) ==
    SelectSeq(esk, LAMBDA e :
        IF e.tag = "PublicKeyEncryptedSessionKey"
        THEN e.ver = pkesk_allowed
        ELSE TRUE)

\* esk_filter: keep the PKESK of version pkesk_allowed and the SKESK of
\* version skesk_allowed, in order.
esk_filter(esk, pkesk_allowed, skesk_allowed) ==
    SelectSeq(esk, LAMBDA e :
        IF e.tag = "PublicKeyEncryptedSessionKey"
        THEN e.ver = pkesk_allowed
        ELSE e.ver = skesk_allowed)

\* lines 56-70: the filter chosen by the edata variant
FilterFor(edata, esk) ==
    IF edata.tag = "SymEncryptedData" THEN esk_filter(esk, 3, 4)
    ELSE IF edata.ver = 1 THEN esk_filter(esk, 3, 4)
    ELSE esk_filter(esk, 6, 6)

\* lines 98-103 and 115-125: what the pending callers make of the inner call's
\* result r, innermost caller last in st.
RECURSIVE Unwind(_, _)
\* Unwind with a caller that takes the None of the inner call for a message
UnwindNone(st, r) ==
    IF st = <<>> THEN r
    ELSE LET outer == SubSeq(st, 1, Len(st) - 1)
             sig == st[Len(st)]
         IN  IF r.kind = "Err" THEN Unwind(outer, r)
             ELSE IF r.kind = "None" THEN Unwind(outer, Ok(Signed(sig, [variant |-> "None"])))
             ELSE Unwind(outer, Ok(Signed(sig, r.msg)))

Unwind(st, r) ==
    IF st = <<>> THEN r
    ELSE LET outer == SubSeq(st, 1, Len(st) - 1)
             sig == st[Len(st)]
         IN  IF r.kind = "Err" THEN Unwind(outer, r)
             ELSE IF r.kind = "None" THEN Unwind(outer, Err("missing next packet"))
             ELSE Unwind(outer, Ok(Signed(sig, r.msg)))

\* lines 101 and 120: SignatureBodyReader::new(..)? and
\* SignatureOnePassReader::new(..)? may fail in a caller that got a message
Outcomes(st, r) ==
    {Unwind(st, r)}
    \cup (IF st # <<>> /\ r.kind = "Some" THEN {Err("signature reader")} ELSE {})

\* the innermost call returns r; every pending caller returns in turn
Return(r) ==
    /\ returned' = r
    /\ result' \in Outcomes(stack, r)
    /\ stack' = <<>>
    /\ pc' = "done"

\* a run of PKESK packets of version 3 whose bodies can be read
EskRun(s) == \A j \in 1..Len(s) : s[j] = Pkt("PublicKeyEncryptedSessionKey", 3, TRUE)

\* the streams of more than MaxPackets packets: a run of ESK packets, which
\* another ESK packet or the edata packet may follow
RunGoesOn(s, p) ==
    /\ EskRun(s)
    /\ \/ Len(s) < MaxEsks /\ p = Pkt("PublicKeyEncryptedSessionKey", 3, TRUE)
       \/ Len(s) <= MaxEsks /\ p = Pkt("SymEncryptedProtectedData", 1, TRUE)

\* Yield leaving the packet in the source
YieldUnread(p) ==
    /\ ~eof
    /\ Len(consumed) < MaxPackets \/ RunGoesOn(consumed, p)
    /\ consumed' = consumed
    /\ eof' = eof

\* packets.next_owned() yields Some(Ok(p))
Yield(p) ==
    /\ ~eof
    /\ Len(consumed) < MaxPackets \/ RunGoesOn(consumed, p)
    /\ consumed' = Append(consumed, p)
    /\ eof' = eof

\* packets.next_owned() yields None
SourceEnds ==
    /\ ~eof
    /\ eof' = TRUE
    /\ consumed' = consumed

ParserInit ==
    /\ pc = "top"
    /\ consumed = <<>>
    /\ eof = FALSE
    /\ esks = <<>>
    /\ stack = <<>>
    /\ returned = NoResult
    /\ result = NoResult

\* line 21-23
TopEnd ==
    /\ pc = "top"
    /\ SourceEnds
    /\ Return(None)
    /\ UNCHANGED esks
    /\ UNCHANGED <<aeadVars, packetVars>>

\* line 24: the packet parser reports an error
TopPacketErr ==
    /\ pc = "top"
    /\ ~eof /\ Len(consumed) < MaxPackets
    /\ UNCHANGED <<consumed, eof, esks>>
    /\ Return(Err("packet"))
    /\ UNCHANGED <<aeadVars, packetVars>>

\* TopEsk without the push of line 37
TopEskNotPushed ==
    /\ pc = "top"
    /\ \E p \in PacketAlphabet :
        /\ p.tag \in EskTags
        /\ p.ok
        /\ Yield(p)
        /\ esks' = <<>>
    /\ pc' = "esk"
    /\ UNCHANGED <<stack, returned, result>>
    /\ UNCHANGED <<aeadVars, packetVars>>

\* the `?` of lines 36, 96, 110-113, 130, 137, 143 and 148: the body of the
\* packet cannot be read
TopBodyErr ==
    /\ pc = "top"
    /\ \E p \in PacketAlphabet :
        /\ p.tag \in EskTags \cup SkipTags
               \cup {"Signature", "OnePassSignature", "CompressedData", "LiteralData"}
        /\ ~p.ok
        /\ Yield(p)
        /\ Return(Err("packet body"))
    /\ UNCHANGED esks
    /\ UNCHANGED <<aeadVars, packetVars>>

\* lines 30-39
TopEsk ==
    /\ pc = "top"
    /\ \E p \in PacketAlphabet :
        /\ p.tag \in EskTags
        /\ p.ok
        /\ Yield(p)
        /\ esks' = <<p>>
    /\ pc' = "esk"
    /\ UNCHANGED <<stack, returned, result>>
    /\ UNCHANGED <<aeadVars, packetVars>>

\* lines 90-98 and 105-115: the packet is kept and `next` is called again
TopSignature ==
    /\ pc = "top"
    /\ \E p \in PacketAlphabet :
        /\ p.tag = "Signature"
        /\ p.ok
        /\ Yield(p)
        /\ stack' = Append(stack, p)
    /\ UNCHANGED <<pc, esks, returned, result>>
    /\ UNCHANGED <<aeadVars, packetVars>>

TopOnePassSignature ==
    /\ pc = "top"
    /\ \E p \in PacketAlphabet :
        /\ p.tag = "OnePassSignature"
        /\ p.ok
        /\ Yield(p)
        /\ stack' = Append(stack, p)
    /\ UNCHANGED <<pc, esks, returned, result>>
    /\ UNCHANGED <<aeadVars, packetVars>>

\* lines 127-133
TopCompressed ==
    /\ pc = "top"
    /\ \E p \in PacketAlphabet :
        /\ p.tag = "CompressedData"
        /\ p.ok
        /\ Yield(p)
        /\ Return(Ok(Leaf("Compressed", p)))
    /\ UNCHANGED esks
    /\ UNCHANGED <<aeadVars, packetVars>>

\* lines 134-140
TopLiteral ==
    /\ pc = "top"
    /\ \E p \in PacketAlphabet :
        /\ p.tag = "LiteralData"
        /\ p.ok
        /\ Yield(p)
        /\ Return(Ok(Leaf("Literal", p)))
    /\ UNCHANGED esks
    /\ UNCHANGED <<aeadVars, packetVars>>

\* lines 141-145
TopPadding ==
    /\ pc = "top"
    /\ \E p \in PacketAlphabet :
        /\ p.tag = "Padding"
        /\ p.ok
        /\ Yield(p)
    /\ UNCHANGED <<pc, esks, stack, returned, result>>
    /\ UNCHANGED <<aeadVars, packetVars>>

\* lines 146-150
TopMarker ==
    /\ pc = "top"
    /\ \E p \in PacketAlphabet :
        /\ p.tag = "Marker"
        /\ p.ok
        /\ Yield(p)
    /\ UNCHANGED <<pc, esks, stack, returned, result>>
    /\ UNCHANGED <<aeadVars, packetVars>>

\* lines 151-153
TopUnexpected ==
    /\ pc = "top"
    /\ \E p \in PacketAlphabet :
        /\ p.tag \notin EskTags \cup SkipTags
               \cup {"Signature", "OnePassSignature", "CompressedData", "LiteralData"}
        /\ Yield(p)
        /\ Return(Err("unexpected packet type"))
    /\ UNCHANGED esks
    /\ UNCHANGED <<aeadVars, packetVars>>

\* lines 42-44
EskEnd ==
    /\ pc = "esk"
    /\ SourceEnds
    /\ Return(Err("missing encrypted data packet"))
    /\ UNCHANGED esks
    /\ UNCHANGED <<aeadVars, packetVars>>

\* line 46
EskPacketErr ==
    /\ pc = "esk"
    /\ ~eof /\ Len(consumed) < MaxPackets
    /\ UNCHANGED <<consumed, eof, esks>>
    /\ Return(Err("packet"))
    /\ UNCHANGED <<aeadVars, packetVars>>

\* the `?` of lines 50, 55, 76 and 81: the body of the packet cannot be read
EskBodyErr ==
    /\ pc = "esk"
    /\ \E p \in PacketAlphabet :
        /\ p.tag \in EskTags \cup EdataTags \cup SkipTags
        /\ ~p.ok
        /\ Yield(p)
        /\ Return(Err("packet body"))
    /\ UNCHANGED esks
    /\ UNCHANGED <<aeadVars, packetVars>>

\* lines 49-53
EskMore ==
    /\ pc = "esk"
    /\ \E p \in PacketAlphabet :
        /\ p.tag \in EskTags
        /\ p.ok
        /\ Yield(p)
        /\ esks' = Append(esks, p)
    /\ UNCHANGED <<pc, stack, returned, result>>
    /\ UNCHANGED <<aeadVars, packetVars>>

\* EskEdata failing when the filter leaves no ESK
EskEdataRejectEmpty ==
    /\ pc = "esk"
    /\ \E p \in PacketAlphabet :
        /\ p.tag \in EdataTags
        /\ p.ok
        /\ Yield(p)
        /\ IF FilterFor(p, esks) = <<>>
           THEN Return(Err("no usable esk"))
           ELSE Return(Ok(Encrypted(FilterFor(p, esks), p)))
    /\ UNCHANGED esks
    /\ UNCHANGED <<aeadVars, packetVars>>

\* lines 54-73
EskEdata ==
    /\ pc = "esk"
    /\ \E p \in PacketAlphabet :
        /\ p.tag \in EdataTags
        /\ p.ok
        /\ Yield(p)
        /\ Return(Ok(Encrypted(FilterFor(p, esks), p)))
    /\ UNCHANGED esks
    /\ UNCHANGED <<aeadVars, packetVars>>

\* lines 74-78
EskPadding ==
    /\ pc = "esk"
    /\ \E p \in PacketAlphabet :
        /\ p.tag = "Padding"
        /\ p.ok
        /\ Yield(p)
    /\ UNCHANGED <<pc, esks, stack, returned, result>>
    /\ UNCHANGED <<aeadVars, packetVars>>

\* EskMarker with the Marker arm missing: the tag falls to the `_` arm
EskMarkerUnexpected ==
    /\ pc = "esk"
    /\ \E p \in PacketAlphabet :
        /\ p.tag = "Marker"
        /\ p.ok
        /\ Yield(p)
        /\ Return(Err("unexpected tag in an encrypted message"))
    /\ UNCHANGED esks
    /\ UNCHANGED <<aeadVars, packetVars>>

\* lines 79-83
EskMarker ==
    /\ pc = "esk"
    /\ \E p \in PacketAlphabet :
        /\ p.tag = "Marker"
        /\ p.ok
        /\ Yield(p)
    /\ UNCHANGED <<pc, esks, stack, returned, result>>
    /\ UNCHANGED <<aeadVars, packetVars>>

\* EskUnexpected skipping the packet instead of failing
EskUnexpectedSkipped ==
    /\ pc = "esk"
    /\ \E p \in PacketAlphabet :
        /\ p.tag \notin EskTags \cup EdataTags \cup SkipTags
        /\ Yield(p)
    /\ UNCHANGED <<pc, esks, stack, returned, result>>
    /\ UNCHANGED <<aeadVars, packetVars>>

\* lines 84-86
EskUnexpected ==
    /\ pc = "esk"
    /\ \E p \in PacketAlphabet :
        /\ p.tag \notin EskTags \cup EdataTags \cup SkipTags
        /\ Yield(p)
        /\ Return(Err("unexpected tag in an encrypted message"))
    /\ UNCHANGED esks
    /\ UNCHANGED <<aeadVars, packetVars>>

ParserNext ==
    \/ TopEnd \/ TopPacketErr \/ TopBodyErr \/ TopEsk \/ TopSignature \/ TopOnePassSignature
    \/ TopCompressed \/ TopLiteral \/ TopPadding \/ TopMarker \/ TopUnexpected
    \/ EskEnd \/ EskPacketErr \/ EskBodyErr \/ EskMore \/ EskEdata \/ EskPadding \/ EskMarker
    \/ EskUnexpected


(***************************************************************************)
(* `next` as a function of a complete packet stream s (the source yields   *)
(* s[i], s[i+1], ... and then None), computed as the code computes it.     *)
(***************************************************************************)
RECURSIVE EskLoop(_, _, _)
\* the loop of lines 41-88, the next packet being s[i]
EskLoop(s, i, collected) ==
    IF i > Len(s) THEN Err("missing encrypted data packet")
    ELSE LET p == s[i]
         IN  IF p.tag \in EskTags \cup EdataTags \cup SkipTags /\ ~p.ok
             THEN Err("packet body")
             ELSE IF p.tag \in EskTags THEN EskLoop(s, i + 1, Append(collected, p))
             ELSE IF p.tag \in EdataTags THEN Ok(Encrypted(FilterFor(p, collected), p))
             ELSE IF p.tag \in SkipTags THEN EskLoop(s, i + 1, collected)
             ELSE Err("unexpected tag in an encrypted message")

RECURSIVE next(_, _)
\* the loop of lines 20-155, the next packet being s[i], every reader of
\* lines 101 and 120 being built
next(s, i) ==
    IF i > Len(s) THEN None
    ELSE LET p == s[i]
         IN  IF p.tag \in EdataTags \/ p.tag = "PublicKey"
             THEN Err("unexpected packet type")
             ELSE IF ~p.ok THEN Err("packet body")
             ELSE IF p.tag \in EskTags THEN EskLoop(s, i + 1, <<p>>)
             ELSE IF p.tag \in {"Signature", "OnePassSignature"}
                  THEN Unwind(<<p>>, next(s, i + 1))
             ELSE IF p.tag = "CompressedData" THEN Ok(Leaf("Compressed", p))
             ELSE IF p.tag = "LiteralData" THEN Ok(Leaf("Literal", p))
             ELSE next(s, i + 1)

\* Message::from_packets
from_packets(r) ==
    IF r.kind = "None" THEN Err("no valid OpenPGP message found") ELSE r

(***************************************************************************)
(* Definitions the properties of the recognizer are stated with.           *)
(***************************************************************************)
\* the stream without its Marker and Padding packets
Strip(s) == SelectSeq(s, LAMBDA p : p.tag \notin SkipTags)

\* the node under the Signed / SignedOnePass nodes of message m
RECURSIVE Innermost(_)
Innermost(m) ==
    IF m.variant \in {"Signed", "SignedOnePass"} THEN Innermost(m.inner) ELSE m

\* the version family of an edata packet: 2 for SEIPDv2, 1 for SED and SEIPDv1
Family(edata) ==
    IF edata.tag = "SymEncryptedProtectedData" /\ edata.ver = 2 THEN 2 ELSE 1

\* RFC 9580 10.3.2.1: PKESK v3 / SKESK v4 go with SED and SEIPDv1,
\* PKESK v6 / SKESK v6 with SEIPDv2
Aligned(e, edata) ==
    IF Family(edata) = 2 THEN e.ver = 6
    ELSE IF e.tag = "PublicKeyEncryptedSessionKey" THEN e.ver = 3
    ELSE e.ver = 4

Returned == pc = "done" /\ result.kind = "Some"
ReturnedEncrypted == Returned /\ Innermost(result.msg).variant = "Encrypted"
Last(s) == s[Len(s)]
\* the index of the first ESK packet of s (0 when there is none)
FirstEsk(s) ==
    IF \E i \in 1..Len(s) : s[i].tag \in EskTags
    THEN CHOOSE i \in 1..Len(s) :
            /\ s[i].tag \in EskTags
            /\ \A j \in 1..(i - 1) : s[j].tag \notin EskTags
    ELSE 0

(***************************************************************************)
(* Part 2: SEIPDv2, src/packet/sym_encrypted_protected_data.rs.            *)
(*                                                                         *)
(* A byte of a buffer is a record [mac, v]: v is the octet, and mac is     *)
(* <<>> except in the first octet of an authentication tag, where it       *)
(* holds what the tag authenticates (the AEAD is modelled as ideal: a tag  *)
(* is an injective function of key, nonce, associated data and ciphertext).*)
(***************************************************************************)
\* the plaintexts have up to this many full chunks
MaxChunks == 2

D(v) == [mac |-> <<>>, v |-> v]

\* [f(1), ..., f(n)]
MapTo(n, f(_)) == IF n = 0 THEN <<>> ELSE [i \in 1..n |-> f(i)]

RECURSIVE SumV(_)
SumV(s) == IF s = <<>> THEN 0 ELSE (Head(s).v + SumV(Tail(s))) % 256

Min(a, b) == IF a < b THEN a ELSE b

\* div_ceil rounding down
div_floor(a, b) == a \div b

\* usize::div_ceil
div_ceil(a, b) == (a + b - 1) \div b

\* u64::to_be_bytes, for the values of the model (below 2^31)
be64(n) == MapTo(8, LAMBDA j : D(IF j <= 4 THEN 0 ELSE (n \div (256 ^ (8 - j))) % 256))

\* SymmetricKeyAlgorithm: into u8, key_size()
SymAlgs == {"AES128", "AES256"}
SymId(a) == IF a = "AES128" THEN 7 ELSE 9
key_size(a) == IF a = "AES128" THEN 16 ELSE 32

\* AeadAlgorithm: into u8, nonce_size(), tag_size()
AeadAlgs == {"Eax", "Ocb", "Gcm"}
AeadId(a) == IF a = "Eax" THEN 1 ELSE IF a = "Ocb" THEN 2 ELSE 3
nonce_size(a) == IF a = "Eax" THEN 16 ELSE IF a = "Ocb" THEN 15 ELSE 12
tag_size(a) == 16

\* Tag::SymEncryptedProtectedData.encode(): the new-format header octet of tag 18
TagEncode == 192 + 18

\* the keystream octet of position i under (key, nonce)
Keystream(key, nonce_, i) == (SumV(key) + 3 * SumV(nonce_) + 7 * i + 1) % 256

\* the authentication tag of ciphertext ct
Mac(a, key, nonce_, ad, ct) ==
    MapTo(tag_size(a), LAMBDA j :
        IF j = 1 THEN [mac |-> <<key, nonce_, ad, ct>>, v |-> 1] ELSE D(j))

\* AeadAlgorithm::encrypt_in_place: the buffer encrypted, and the tag
encrypt_in_place(a, key, nonce_, ad, buf) ==
    LET ct == MapTo(Len(buf), LAMBDA i : D((buf[i].v + Keystream(key, nonce_, i)) % 256))
    IN  [ct |-> ct, tag |-> Mac(a, key, nonce_, ad, ct)]

\* AeadAlgorithm::decrypt_in_place: an error unless the tag is that of buf
decrypt_in_place(a, key, nonce_, ad, auth_tag, buf) ==
    IF auth_tag = Mac(a, key, nonce_, ad, buf)
    THEN [ok |-> TRUE,
          pt |-> MapTo(Len(buf), LAMBDA i : D((buf[i].v - Keystream(key, nonce_, i)) % 256))]
    ELSE [ok |-> FALSE, pt |-> <<>>]

\* line 88
OkmLen == 42

\* hkdf::Hkdf::<Sha256>::new(Some(salt), ikm).expand(info, okm)
HkdfExpand(salt, ikm, info_) ==
    LET mix == (SumV(salt) + 3 * SumV(ikm) + 5 * SumV(info_)) % 256
    IN  MapTo(OkmLen, LAMBDA j : D((mix + 11 * j) % 256))

\* aead_setup: (info, message_key, nonce)
aead_setup(sym_alg, aead, chunk_size, salt, ikm) ==
    LET info_ == <<D(TagEncode), D(2), D(SymId(sym_alg)), D(AeadId(aead)), D(chunk_size)>>
        okm == HkdfExpand(salt, ikm, info_)
        raw_iv_len == nonce_size(aead) - 8
        iv == SubSeq(okm, key_size(sym_alg) + 1, key_size(sym_alg) + raw_iv_len)
    IN  [info |-> info_,
         message_key |-> SubSeq(okm, 1, key_size(sym_alg)),
         nonce |-> iv \o MapTo(nonce_size(aead) - raw_iv_len, LAMBDA j : D(0))]

\* 1u32 << (s as u32 + 6) shifts by 32 bits or more
shift_overflows(s) == s + 6 >= 32

\* expand_chunk_size: 1u32 << (s as u32 + 6); when the shift overflows and the
\* build does not check it, the shift amount is taken modulo 32 (the model
\* has no chunk size octet 25, whose chunk length is 2^31)
expand_chunk_size(s) == 2 ^ ((s + 6) % 32)

\* UpdateNonce writing the index over a cleared nonce
UpdateNonceCleared(nonce_, index) ==
    MapTo(Len(nonce_) - 8, LAMBDA j : D(0)) \o be64(index)

\* lines 156-157 and 280-281: nonce[l..].copy_from_slice(&chunk_index.to_be_bytes())
UpdateNonce(nonce_, index) == SubSeq(nonce_, 1, Len(nonce_) - 8) \o be64(index)

(***************************************************************************)
(* The inputs.                                                             *)
(***************************************************************************)
ChunkExps == {0, 1}
\* a session key of len octets
KeyOf(len, seed) == MapTo(len, LAMBDA j : D((seed * j) % 256))
SessionKeys == {KeyOf(len, 1) : len \in {16, 32}}
DecryptKeys == SessionKeys
\* a plaintext of n octets
Plain(n) == MapTo(n, LAMBDA j : D((5 * j + n) % 256))
\* the lengths around the chunk boundaries
Lengths(cs) == {0, 1} \cup {k * cs : k \in 1..MaxChunks}
                      \cup {k * cs + 1 : k \in 1..(MaxChunks - 1)}
Salts == {MapTo(32, LAMBDA j : D(j))}

NoPacket == [sym_alg |-> "", aead |-> "", chunk_size |-> 0, salt |-> <<>>, data |-> <<>>]
\* Result: of encrypt_seipdv2 (the packet is in `packet`, data is <<>>) and of decrypt
AOk(d) == [kind |-> "Ok", data |-> d, err |-> ""]
AErr(e) == [kind |-> "Err", data |-> <<>>, err |-> e]
ANone == [kind |-> "none", data |-> <<>>, err |-> ""]
\* the call panicked
APanic(e) == [kind |-> "Panic", data |-> <<>>, err |-> e]

\* no call has been made yet
AeadFresh ==
    /\ info = <<>>
    /\ message_key = <<>>
    /\ nonce = <<>>
    /\ chunk_index = 0
    /\ pos = 0
    /\ out = <<>>
    /\ out_len = 0
    /\ packet = NoPacket
    /\ enc_result = ANone
    /\ tampered = FALSE
    /\ altered = "no"
    /\ dec_key = <<>>
    /\ dec_result = ANone
    /\ calls = <<>>

AeadInit ==
    /\ apc = "start"
    /\ \E sa \in SymAlgs, ae \in AeadAlgs, cs \in ChunkExps, k \in SessionKeys, s \in Salts :
        \E n \in Lengths(expand_chunk_size(cs)) :
            inp = [sym_alg |-> sa, aead |-> ae, chunk_size |-> cs, session_key |-> k,
                   plaintext |-> Plain(n), salt |-> s]
    /\ AeadFresh

\* lines 118-140: salt, chunk size, aead_setup, out_len, the empty `out`
EncryptSetup ==
    /\ LET chunk_size_expanded == expand_chunk_size(inp.chunk_size)
           setup == aead_setup(inp.sym_alg, inp.aead, inp.chunk_size, inp.salt,
                               inp.session_key)
           plain_len == Len(inp.plaintext)
           num_chunks == div_ceil(plain_len, chunk_size_expanded)
       IN  /\ info' = setup.info
           /\ message_key' = setup.message_key
           /\ nonce' = setup.nonce
           /\ out_len' = plain_len + (num_chunks + 1) * tag_size(inp.aead)
    /\ out' = <<>>
    /\ chunk_index' = 0
    /\ pos' = 0
    /\ calls' = <<>>
    /\ apc' = "enc_loop"
    /\ UNCHANGED <<inp, packet, enc_result, tampered, altered, dec_key, dec_result>>
    /\ UNCHANGED <<parserVars, packetVars>>

\* lines 111-140, the key being of the algorithm's size
EncryptStart ==
    /\ apc = "start"
    /\ Len(inp.session_key) = key_size(inp.sym_alg)
    /\ EncryptSetup

\* EncryptRejectKey without the ensure_eq! of lines 111-116
EncryptKeyUnchecked ==
    /\ apc = "start"
    /\ Len(inp.session_key) # key_size(inp.sym_alg)
    /\ EncryptSetup

\* lines 111-116: ensure_eq!(session_key.len(), sym_alg.key_size())
EncryptRejectKey ==
    /\ apc = "start"
    /\ Len(inp.session_key) # key_size(inp.sym_alg)
    /\ enc_result' = AErr("Unexpected session key length")
    /\ apc' = "enc_err"
    /\ UNCHANGED <<inp, info, message_key, nonce, chunk_index, pos, out, out_len,
                   packet, tampered, altered, dec_key, dec_result, calls>>
    /\ UNCHANGED <<parserVars, packetVars>>

\* lines 141-158: one iteration of the loop over plaintext.chunks(chunk_size_expanded)
EncryptChunk ==
    /\ apc = "enc_loop"
    /\ pos < Len(inp.plaintext)
    /\ LET chunk_size_expanded == expand_chunk_size(inp.chunk_size)
           chunk == SubSeq(inp.plaintext, pos + 1,
                           Min(pos + chunk_size_expanded, Len(inp.plaintext)))
           r == encrypt_in_place(inp.aead, message_key, nonce, info, chunk)
       IN  /\ out' = out \o r.ct \o r.tag
           /\ pos' = pos + Len(chunk)
           /\ calls' = Append(calls, [nonce |-> nonce, ad |-> info, index |-> chunk_index])
    /\ chunk_index' = chunk_index + 1
    /\ nonce' = UpdateNonce(nonce, chunk_index')
    /\ UNCHANGED <<apc, inp, info, message_key, out_len, packet, enc_result, tampered, altered,
                   dec_key, dec_result>>
    /\ UNCHANGED <<parserVars, packetVars>>

\* lines 160-187: the final tag, the debug assertion and the packet
EncryptFinal ==
    /\ apc = "enc_loop"
    /\ pos = Len(inp.plaintext)
    /\ LET size == Len(inp.plaintext)
           final_info == info \o be64(size)
           r == encrypt_in_place(inp.aead, message_key, nonce, final_info, <<>>)
           done == out \o r.tag
       IN  /\ calls' = Append(calls, [nonce |-> nonce, ad |-> final_info,
                                      index |-> chunk_index])
           /\ IF Len(done) # out_len
              THEN \* debug_assert_eq!(out.len(), out_len)
                   /\ apc' = "panic"
                   /\ out' = done
                   /\ UNCHANGED <<packet, enc_result>>
              ELSE \* `out` is moved into the packet
                   /\ apc' = "enc_done"
                   /\ packet' = [sym_alg |-> inp.sym_alg, aead |-> inp.aead,
                                 chunk_size |-> inp.chunk_size, salt |-> inp.salt,
                                 data |-> done]
                   /\ out' = <<>>
                   /\ enc_result' = AOk(<<>>)
    /\ UNCHANGED <<inp, info, message_key, nonce, chunk_index, pos, out_len, tampered, altered,
                   dec_key, dec_result>>
    /\ UNCHANGED <<parserVars, packetVars>>

\* the packet's data is altered on its way to decrypt: octet i is replaced
\* by another octet
Tamper ==
    /\ apc = "enc_done"
    /\ ~tampered
    /\ \E i \in 1..Len(packet.data) :
        packet' = [packet EXCEPT !.data[i].v = (@ + 1) % 256]
    /\ tampered' = TRUE
    /\ altered' = "octet"
    /\ UNCHANGED <<apc, inp, info, message_key, nonce, chunk_index, pos, out, out_len,
                   enc_result, dec_key, dec_result, calls>>
    /\ UNCHANGED <<parserVars, packetVars>>

\* main_chunks with the final tag left in
main_chunks_whole == packet.data

\* lines 253-254: data.split_at_mut(data.len() - aead_tag_size)
main_chunks == SubSeq(packet.data, 1, Len(packet.data) - tag_size(packet.aead))
final_auth_tag ==
    SubSeq(packet.data, Len(packet.data) - tag_size(packet.aead) + 1, Len(packet.data))

\* lines 229-234: ensure_eq!(session_key.len(), sym_alg.key_size())
DecryptRejectKey ==
    /\ apc = "enc_done"
    /\ \E k \in DecryptKeys :
        /\ Len(k) # key_size(packet.sym_alg)
        /\ dec_key' = k
    /\ dec_result' = AErr("Unexpected session key length")
    /\ apc' = "dec_done"
    /\ UNCHANGED <<inp, info, message_key, nonce, chunk_index, pos, out, out_len,
                   packet, enc_result, tampered, altered, calls>>
    /\ UNCHANGED <<parserVars, packetVars>>

\* lines 236-269
DecryptStart ==
    /\ apc = "enc_done"
    /\ \E k \in DecryptKeys :
        /\ Len(k) = key_size(packet.sym_alg)
        /\ dec_key' = k
    /\ LET chunk_size_expanded == expand_chunk_size(packet.chunk_size)
           setup == aead_setup(packet.sym_alg, packet.aead, packet.chunk_size,
                               packet.salt, dec_key')
           aead_tag_size == tag_size(packet.aead)
           chunk_and_tag_len == chunk_size_expanded + aead_tag_size
           main_len == Len(packet.data) - aead_tag_size
           num_chunks == div_ceil(main_len, chunk_and_tag_len)
       IN  /\ info' = setup.info
           /\ message_key' = setup.message_key
           /\ nonce' = setup.nonce
           /\ IF Len(packet.data) < aead_tag_size
              THEN /\ dec_result' = AErr("InvalidInput")
                   /\ apc' = "dec_done"
                   /\ UNCHANGED out_len
              ELSE IF main_len < num_chunks * aead_tag_size
              THEN \* line 265: main_len - num_chunks * aead_tag_size underflows
                   /\ dec_result' = APanic("attempt to subtract with overflow")
                   /\ apc' = "panic"
                   /\ UNCHANGED out_len
              ELSE /\ out_len' = main_len - num_chunks * aead_tag_size
                   /\ apc' = "dec_loop"
                   /\ UNCHANGED dec_result
    /\ out' = <<>>
    /\ chunk_index' = 0
    /\ pos' = 0
    /\ calls' = <<>>
    /\ UNCHANGED <<inp, packet, enc_result, tampered, altered>>
    /\ UNCHANGED <<parserVars, packetVars>>

\* lines 270-282: one iteration of the loop over main_chunks.chunks_mut(..)
DecryptChunk ==
    /\ apc = "dec_loop"
    /\ pos < Len(main_chunks)
    /\ LET aead_tag_size == tag_size(packet.aead)
           piece == SubSeq(main_chunks, pos + 1,
                           Min(pos + expand_chunk_size(packet.chunk_size) + aead_tag_size,
                               Len(main_chunks)))
           offset == Len(piece) - aead_tag_size
           chunk == SubSeq(piece, 1, offset)
           auth_tag == SubSeq(piece, offset + 1, Len(piece))
           r == decrypt_in_place(packet.aead, message_key, nonce, info, auth_tag, chunk)
       IN  IF Len(piece) < aead_tag_size
           THEN \* line 271: chunk.len() - aead_tag_size underflows
                /\ apc' = "panic"
                /\ dec_result' = APanic("attempt to subtract with overflow")
                /\ UNCHANGED <<out, pos, calls, chunk_index, nonce>>
           ELSE IF ~r.ok
           THEN /\ dec_result' = AErr("authentication")
                /\ apc' = "dec_done"
                /\ out' = <<>>
                /\ calls' = Append(calls, [nonce |-> nonce, ad |-> info,
                                           index |-> chunk_index])
                /\ UNCHANGED <<pos, chunk_index, nonce>>
           ELSE /\ out' = out \o r.pt
                /\ pos' = pos + Len(piece)
                /\ calls' = Append(calls, [nonce |-> nonce, ad |-> info,
                                           index |-> chunk_index])
                /\ chunk_index' = chunk_index + 1
                /\ nonce' = UpdateNonce(nonce, chunk_index')
                /\ UNCHANGED <<apc, dec_result>>
    /\ UNCHANGED <<inp, info, message_key, out_len, packet, enc_result, tampered, altered, dec_key>>
    /\ UNCHANGED <<parserVars, packetVars>>

\* DecryptFinal without the check of the final tag
DecryptFinalUnverified ==
    /\ apc = "dec_loop"
    /\ pos = Len(main_chunks)
    /\ dec_result' = AOk(out)
    /\ apc' = "dec_done"
    /\ out' = <<>>
    /\ UNCHANGED <<inp, info, message_key, nonce, chunk_index, pos, out_len, packet,
                   enc_result, tampered, altered, dec_key, calls>>
    /\ UNCHANGED <<parserVars, packetVars>>

\* lines 284-303: the final tag, the debug assertion and the result
DecryptFinal ==
    /\ apc = "dec_loop"
    /\ pos = Len(main_chunks)
    /\ LET size == Len(out)
           final_info == info \o be64(size)
           r == decrypt_in_place(packet.aead, message_key, nonce, final_info,
                                 final_auth_tag, <<>>)
       IN  /\ calls' = Append(calls, [nonce |-> nonce, ad |-> final_info,
                                      index |-> chunk_index])
           /\ IF ~r.ok
              THEN /\ dec_result' = AErr("authentication")
                   /\ apc' = "dec_done"
                   /\ out' = <<>>
              ELSE IF Len(out) # out_len
              THEN /\ apc' = "panic"
                   /\ UNCHANGED <<out, dec_result>>
              ELSE \* Ok(out): `out` is moved into the result
                   /\ dec_result' = AOk(out)
                   /\ apc' = "dec_done"
                   /\ out' = <<>>
    /\ UNCHANGED <<inp, info, message_key, nonce, chunk_index, pos, out_len, packet,
                   enc_result, tampered, altered, dec_key>>
    /\ UNCHANGED <<parserVars, packetVars>>

\* line 125: expand_chunk_size panics in a build that checks the shift
EncryptShiftPanic ==
    /\ apc = "start"
    /\ Len(inp.session_key) = key_size(inp.sym_alg)
    /\ shift_overflows(inp.chunk_size)
    /\ enc_result' = APanic("attempt to shift left with overflow")
    /\ apc' = "panic"
    /\ UNCHANGED <<inp, info, message_key, nonce, chunk_index, pos, out, out_len,
                   packet, tampered, altered, dec_key, dec_result, calls>>
    /\ UNCHANGED <<parserVars, packetVars>>

\* line 239: expand_chunk_size panics in a build that checks the shift
DecryptShiftPanic ==
    /\ apc = "enc_done"
    /\ \E k \in DecryptKeys :
        /\ Len(k) = key_size(packet.sym_alg)
        /\ dec_key' = k
    /\ shift_overflows(packet.chunk_size)
    /\ dec_result' = APanic("attempt to shift left with overflow")
    /\ apc' = "panic"
    /\ UNCHANGED <<inp, info, message_key, nonce, chunk_index, pos, out, out_len,
                   packet, enc_result, tampered, altered, calls>>
    /\ UNCHANGED <<parserVars, packetVars>>

\* the packet's data is cut short on its way to decrypt: its first n octets
\* are left
Cut ==
    /\ apc = "enc_done"
    /\ altered = "no"
    /\ \E n \in 0..(Len(packet.data) - 1) :
        packet' = [packet EXCEPT !.data = SubSeq(packet.data, 1, n)]
    /\ tampered' = TRUE
    /\ altered' = "cut"
    /\ UNCHANGED <<apc, inp, info, message_key, nonce, chunk_index, pos, out, out_len,
                   enc_result, dec_key, dec_result, calls>>
    /\ UNCHANGED <<parserVars, packetVars>>

\* the packet's data loses its last chunks with their tags on its way to
\* decrypt: the first j chunks, their tags and the final tag are left
DropChunks ==
    /\ apc = "enc_done"
    /\ altered = "no"
    /\ LET pair == expand_chunk_size(packet.chunk_size) + tag_size(packet.aead)
       IN  \E j \in 0..(div_ceil(Len(main_chunks), pair) - 1) :
               packet' = [packet EXCEPT
                             !.data = SubSeq(main_chunks, 1, j * pair) \o final_auth_tag]
    /\ tampered' = TRUE
    /\ altered' = "dropped"
    /\ UNCHANGED <<apc, inp, info, message_key, nonce, chunk_index, pos, out, out_len,
                   enc_result, dec_key, dec_result, calls>>
    /\ UNCHANGED <<parserVars, packetVars>>

\* the chunk size octets of the packets that are not made by this crate's
\* defaults: a large chunk, and shifts of 32 bits and more
WireChunkExps == {0, 24, 26, 255}
\* plaintexts of a few octets, and around the chunk boundary of a short chunk
WireLengths(cs) ==
    {0, 1, 2} \cup (IF cs <= 64 THEN {cs, cs + 1} ELSE {})

\* encrypt_seipdv2 is called with any chunk size octet
AeadWireInit ==
    /\ apc = "start"
    /\ \E ae \in AeadAlgs, cs \in WireChunkExps, s \in Salts :
        \E n \in WireLengths(expand_chunk_size(cs)) :
            inp = [sym_alg |-> "AES128", aead |-> ae, chunk_size |-> cs,
                   session_key |-> KeyOf(key_size("AES128"), 1),
                   plaintext |-> Plain(n), salt |-> s]
    /\ AeadFresh

AeadWireNext ==
    \/ EncryptStart \/ EncryptShiftPanic \/ EncryptChunk \/ EncryptFinal
    \/ Cut \/ DropChunks
    \/ DecryptStart \/ DecryptShiftPanic \/ DecryptChunk \/ DecryptFinal

(***************************************************************************)
(* Part 3: key packets (PublicKey, PublicSubkey) and Padding packets.      *)
(***************************************************************************)
\* the longest opaque run of octets of the inputs: the data of a Padding
\* packet and the key material of an unknown algorithm
MaxData == 2

\* Result<T>: Ok(val), Err(err), or a panic of the call
KOk(v) == [kind |-> "Ok", val |-> v, err |-> ""]
KErr(e) == [kind |-> "Err", val |-> <<>>, err |-> e]
Panic(e) == [kind |-> "Panic", val |-> <<>>, err |-> e]
NoOutcome == [kind |-> "none", val |-> <<>>, err |-> ""]
NoInput == [op |-> "none"]

\* nom's IResult: the value and the input left, or the error
POk(rest, v) == [ok |-> TRUE, rest |-> rest, val |-> v, err |-> ""]
PErr(e) == [ok |-> FALSE, rest |-> <<>>, val |-> <<>>, err |-> e]

\* n octets b
Fill(n, b) == [j \in 1..n |-> b]
Take(s, n) == SubSeq(s, 1, n)
Drop(s, n) == SubSeq(s, n + 1, Len(s))

\* to_be_bytes of an integer of w octets (values below 2^31)
BE(n, w) == [j \in 1..w |-> (n \div (256 ^ (w - j))) % 256]

RECURSIVE FromBE(_)
\* the big-endian number of the octets s (values below 2^31)
FromBE(s) == IF s = <<>> THEN 0 ELSE FromBE(Take(s, Len(s) - 1)) * 256 + s[Len(s)]

\* `len as u16`
AsU16(n) == n % 65536

\* nom::number::streaming::be_u8, be_u16, be_u32
be_u8(i) == IF Len(i) < 1 THEN PErr("Incomplete") ELSE POk(Drop(i, 1), i[1])
be_u16(i) == IF Len(i) < 2 THEN PErr("Incomplete") ELSE POk(Drop(i, 2), FromBE(Take(i, 2)))
\* a count above 2^31 - 1 is more than any input holds: it stands as 2^31 - 1
be_u32(i) ==
    IF Len(i) < 4 THEN PErr("Incomplete")
    ELSE POk(Drop(i, 4), IF i[1] >= 128 THEN 2147483647 ELSE FromBE(Take(i, 4)))

\* nom::bytes::streaming::take
take(n, i) == IF Len(i) < n THEN PErr("Incomplete") ELSE POk(Drop(i, n), Take(i, n))
\* nom::bytes::complete::take
take_complete(n, i) == IF Len(i) < n THEN PErr("Eof") ELSE POk(Drop(i, n), Take(i, n))
\* nom::multi::length_data(be_u8)
length_data(i) ==
    LET l == be_u8(i)
    IN  IF ~l.ok THEN l ELSE take(l.val, l.rest)

RECURSIVE strip_leading_zeros(_)
strip_leading_zeros(s) ==
    IF s # <<>> /\ Head(s) = 0 THEN strip_leading_zeros(Tail(s)) ELSE s

RECURSIVE BitLen(_)
\* the number of significant bits of an octet
BitLen(b) == IF b = 0 THEN 0 ELSE 1 + BitLen(b \div 2)

\* Mpi::from_slice: the value without its leading zero octets
Mpi_from_slice(s) == strip_leading_zeros(s)

\* types::mpi: a two-octet bit count, then the octets of the number
mpi(i) ==
    LET bits == be_u16(i)
    IN  IF ~bits.ok THEN bits
        ELSE LET n == take((bits.val + 7) \div 8, bits.rest)
             IN  IF ~n.ok THEN n ELSE POk(n.rest, strip_leading_zeros(n.val))

\* Serialize for Mpi: the bit count of the value, then its octets
Mpi_to_writer(m) ==
    BE(IF m = <<>> THEN 0 ELSE (Len(m) - 1) * 8 + BitLen(m[1]), 2) \o m
Mpi_write_len(m) == 2 + Len(m)

\* ECCCurve::oid and ecc_curve_from_oid
Curves == {"P256", "P384", "P521", "Secp256k1", "Ed25519", "Curve25519", "BrainpoolP256r1"}
oid(curve) ==
    CASE curve = "P256" -> <<42, 134, 72, 206, 61, 3, 1, 7>>
      [] curve = "P384" -> <<43, 129, 4, 0, 34>>
      [] curve = "P521" -> <<43, 129, 4, 0, 35>>
      [] curve = "Secp256k1" -> <<43, 129, 4, 0, 10>>
      [] curve = "Ed25519" -> <<43, 6, 1, 4, 1, 218, 71, 15, 1>>
      [] curve = "Curve25519" -> <<43, 6, 1, 4, 1, 151, 85, 1, 5, 1>>
      [] curve = "BrainpoolP256r1" -> <<43, 36, 3, 3, 2, 8, 1, 1, 7>>
\* None when no curve has this OID
ecc_curve_from_oid(o) ==
    IF \E c \in Curves : oid(c) = o
    THEN KOk(CHOOSE c \in Curves : oid(c) = o)
    ELSE NoOutcome

\* PublicKeyAlgorithm: into u8 and from u8 (an algorithm is its ID)
RSA == 1
RSAEncrypt == 2
RSASign == 3
ElgamalEncrypt == 16
DSA == 17
ECDH == 18
ECDSA == 19
Elgamal == 20
DiffieHellman == 21
EdDSALegacy == 22
X25519 == 25
X448 == 26
Ed25519 == 27
Ed448 == 28
Private100 == 100
\* an ID that is no algorithm of the enumeration: PublicKeyAlgorithm::Unknown(99)
UnknownAlg == 99

\* KeyVersion: into u8 and from u8 (a version is its number; 7 is Other(7))
V2 == 2
V3 == 3
V4 == 4
V5 == 5
V6 == 6
OtherVersion == 7
KeyVersions == {V2, V3, V4, V5, V6, OtherVersion}

\* HashAlgorithm::from is total; SymmetricKeyAlgorithm::try_from knows 0..13
SymmetricKeyAlgorithm_try_from(b) == IF b <= 13 THEN KOk(b) ELSE KErr("Message: invalid symmetric algorithm")

\* the length of the SEC1 uncompressed point of a curve
PointLen(curve) ==
    CASE curve = "P256" -> 65
      [] curve = "P384" -> 97
      [] curve = "P521" -> 133
      [] curve = "Secp256k1" -> 65
\* PublicKey::from_sec1_bytes: an uncompressed point of the curve (the points
\* of the curve are the encodings that do not end in a zero octet)
from_sec1_bytes(curve, b) ==
    IF Len(b) = PointLen(curve) /\ b[1] = 4 /\ b[Len(b)] # 0
    THEN KOk(b) ELSE KErr("elliptic curve")

\* Option<usize>, Option<u16>
NoneOpt == [some |-> FALSE, v |-> 0]
SomeOpt(x) == [some |-> TRUE, v |-> x]

RECURSIVE mpis(_, _)
\* k times map(mpi, to_owned): the k numbers, or the first error
mpis(k, i) ==
    IF k = 0 THEN POk(i, <<>>)
    ELSE LET m == mpi(i)
         IN  IF ~m.ok THEN m
             ELSE LET r == mpis(k - 1, m.rest)
                  IN  IF ~r.ok THEN r ELSE POk(r.rest, <<m.val>> \o r.val)

\* map_opt(length_data(be_u8), ecc_curve_from_oid)
curve_oid(i) ==
    LET o == length_data(i)
    IN  IF ~o.ok THEN o
        ELSE LET c == ecc_curve_from_oid(o.val)
             IN  IF c.kind = "Ok" THEN POk(o.rest, c.val) ELSE PErr("Nom: MapOpt")

\* EcdsaPublicParams::try_from_mpi
try_from_mpi(p, curve) ==
    IF curve \in {"P256", "P384", "P521", "Secp256k1"}
    THEN IF Len(p) > PointLen(curve) THEN KErr("Message: invalid public key length")
         ELSE LET key == p \o Fill(PointLen(curve) - Len(p), 0)
                  public == from_sec1_bytes(curve, key)
              IN  IF public.kind # "Ok" THEN public
                  ELSE KOk([variant |-> "ECDSA", sub |-> curve, curve |-> curve, p |-> public.val])
    ELSE KOk([variant |-> "ECDSA", sub |-> "Unsupported", curve |-> curve, p |-> p])

ecdsa(i) ==
    LET c == curve_oid(i)
    IN  IF ~c.ok THEN c
        ELSE LET p == mpi(c.rest)
             IN  IF ~p.ok THEN p
                 ELSE LET k == try_from_mpi(p.val, c.val)
                      IN  IF k.kind = "Ok" THEN POk(p.rest, k.val) ELSE PErr(k.err)

eddsa_legacy(i) ==
    LET c == curve_oid(i)
    IN  IF ~c.ok THEN c
        ELSE LET q == mpi(c.rest)
             IN  IF ~q.ok THEN q
                 ELSE POk(q.rest, [variant |-> "EdDSALegacy", curve |-> c.val, q |-> q.val])

ed25519(i) ==
    LET p == take_complete(32, i)
    IN  IF ~p.ok THEN p ELSE POk(p.rest, [variant |-> "Ed25519", public |-> p.val])

x25519(i) ==
    LET p == take_complete(32, i)
    IN  IF ~p.ok THEN p ELSE POk(p.rest, [variant |-> "X25519", public |-> p.val])

\* the value of an ECDH key over a curve with a KDF block, and over another curve
EcdhKnown(curve, p, hash, alg_sym) ==
    [variant |-> "ECDH", sub |-> "Known", curve |-> curve, p |-> p,
     hash |-> hash, alg_sym |-> alg_sym, opaque |-> <<>>]
EcdhUnsupported(curve, opaque) ==
    [variant |-> "ECDH", sub |-> "Unsupported", curve |-> curve, p |-> <<>>,
     hash |-> 0, alg_sym |-> 0, opaque |-> opaque]

\* lines 107-117: the KDF block after the point
ecdh_kdf(curve, p, i) ==
    LET len2 == be_u8(i)
    IN  IF ~len2.ok THEN len2
        ELSE IF len2.rest = <<>> THEN PErr("Incomplete")
        ELSE IF len2.rest[1] # 1 THEN PErr("Nom: Tag")
        ELSE LET hash == be_u8(Drop(len2.rest, 1))
             IN  IF ~hash.ok THEN hash
                 ELSE LET b == be_u8(hash.rest)
                      IN  IF ~b.ok THEN b
                          ELSE LET alg_sym == SymmetricKeyAlgorithm_try_from(b.val)
                               IN  IF alg_sym.kind # "Ok" THEN PErr("Nom: MapRes")
                                   ELSE POk(b.rest, EcdhKnown(curve, p, hash.val, alg_sym.val))

ecdh(i) ==
    LET c == curve_oid(i)
    IN  IF ~c.ok THEN c
        ELSE IF c.val \in {"Curve25519", "P256", "P384", "P521"}
        THEN LET p == mpi(c.rest)
             IN  IF ~p.ok THEN p ELSE ecdh_kdf(c.val, p.val, p.rest)
        ELSE POk(c.rest, EcdhUnsupported(c.val, <<>>))

elgamal(i) ==
    LET r == mpis(3, i)
    IN  IF ~r.ok THEN r
        ELSE POk(r.rest, [variant |-> "Elgamal", p |-> r.val[1], g |-> r.val[2], y |-> r.val[3]])

dsa(i) ==
    LET r == mpis(4, i)
    IN  IF ~r.ok THEN r
        ELSE POk(r.rest, [variant |-> "DSA", p |-> r.val[1], q |-> r.val[2],
                          g |-> r.val[3], y |-> r.val[4]])

rsa(i) ==
    LET r == mpis(2, i)
    IN  IF ~r.ok THEN r
        ELSE POk(r.rest, [variant |-> "RSA", n |-> r.val[1], e |-> r.val[2]])

\* unknown consuming the rest of the input whatever the length says
unknown_takes_all(i, len) == POk(<<>>, [variant |-> "Unknown", data |-> i])

unknown(i, len) ==
    IF len.some
    THEN LET data == take(len.v, i)
         IN  IF ~data.ok THEN data
             ELSE POk(data.rest, [variant |-> "Unknown", data |-> data.val])
    ELSE \* we don't know how many bytes to consume
         POk(i, [variant |-> "Unknown", data |-> <<>>])

\* Parse the fields of a public key (the build without unstable-curve448)
parse_pub_fields(typ, len, i) ==
    CASE typ \in {RSA, RSAEncrypt, RSASign} -> rsa(i)
      [] typ = DSA -> dsa(i)
      [] typ = ECDSA -> ecdsa(i)
      [] typ = ECDH -> ecdh(i)
      [] typ \in {Elgamal, ElgamalEncrypt} -> elgamal(i)
      [] typ = EdDSALegacy -> eddsa_legacy(i)
      [] typ = Ed25519 -> ed25519(i)
      [] typ = X25519 -> x25519(i)
      [] OTHER -> unknown(i, len)

\* DateTime<Utc>: seconds since the epoch and the nanoseconds within the second
Time(secs, nanos) == [secs |-> secs, nanos |-> nanos]

\* the consistency check of pub_len left out
pub_len_unchecked(expected_rest, rest) == TRUE

\* lines 269-276: consistency check for pub_len, if available
pub_len_consistent(expected_rest, rest) ==
    expected_rest.some => expected_rest.v = Len(rest)

\* lines 269-278: the key of the parameters read, once the count is checked
v4_v6_key(key_ver, created_at, alg, expected_rest, params) ==
    IF ~params.ok THEN params
    ELSE IF ~pub_len_consistent(expected_rest, params.rest)
    THEN PErr("Message: Inconsistent pub_len in secret key packet")
    ELSE POk(params.rest,
             [version |-> key_ver, algorithm |-> alg, created_at |-> created_at,
              expiration |-> NoneOpt, public_params |-> params.val])

\* lines 243-278, after created_at and alg
v4_v6_params(key_ver, created_at, alg, pub_len, i) ==
    IF pub_len.some /\ Len(i) < pub_len.v THEN PErr("InvalidInput")
    ELSE v4_v6_key(key_ver, created_at, alg,
                   IF pub_len.some THEN SomeOpt(Len(i) - pub_len.v) ELSE NoneOpt,
                   parse_pub_fields(alg, pub_len, i))

\* lines 243-254: the octet count of version 6, which is not zero
v6_count(key_ver, created_at, alg, len) ==
    IF ~len.ok THEN len
    ELSE IF len.val = 0 THEN PErr("InvalidInput")
    ELSE v4_v6_params(key_ver, created_at, alg, SomeOpt(len.val), len.rest)

\* lines 241-278, after created_at
v4_v6_alg(key_ver, created_at, alg) ==
    IF ~alg.ok THEN alg
    ELSE IF key_ver = V6 THEN v6_count(key_ver, created_at, alg.val, be_u32(alg.rest))
    ELSE v4_v6_params(key_ver, created_at, alg.val, NoneOpt, alg.rest)

v4_v6_created_at(key_ver, created_at) ==
    IF ~created_at.ok THEN created_at
    ELSE v4_v6_alg(key_ver, Time(created_at.val, 0), be_u8(created_at.rest))

public_key_parser_v4_v6(key_ver, i) == v4_v6_created_at(key_ver, be_u32(i))

\* lines 298-303: the key of the parameters read
v2_v3_key(key_ver, created_at, exp, alg, params) ==
    IF ~params.ok THEN params
    ELSE POk(params.rest,
             [version |-> key_ver, algorithm |-> alg, created_at |-> created_at,
              expiration |-> SomeOpt(exp), public_params |-> params.val])

v2_v3_alg(key_ver, created_at, exp, alg) ==
    IF ~alg.ok THEN alg
    ELSE v2_v3_key(key_ver, created_at, exp, alg.val,
                   parse_pub_fields(alg.val, NoneOpt, alg.rest))

v2_v3_exp(key_ver, created_at, exp) ==
    IF ~exp.ok THEN exp ELSE v2_v3_alg(key_ver, created_at, exp.val, be_u8(exp.rest))

v2_v3_created_at(key_ver, created_at) ==
    IF ~created_at.ok THEN created_at
    ELSE v2_v3_exp(key_ver, Time(created_at.val, 0), be_u16(created_at.rest))

public_key_parser_v2_v3(key_ver, i) == v2_v3_created_at(key_ver, be_u32(i))

\* lines 310-332: the parser of the version read
parse_version(key_ver) ==
    IF ~key_ver.ok THEN key_ver
    ELSE IF key_ver.val \in {V2, V3} THEN public_key_parser_v2_v3(key_ver.val, key_ver.rest)
    ELSE IF key_ver.val \in {V4, V6} THEN public_key_parser_v4_v6(key_ver.val, key_ver.rest)
    ELSE PErr("Unsupported: Unsupported key version")

\* Parse a public key packet (Tag 6)
parse(i) == parse_version(be_u8(i))

\* PublicParams::ECDH(EcdhPublicParams::Curve25519 { .. })
IsEcdhCurve25519(public_params) ==
    /\ public_params.variant = "ECDH"
    /\ public_params.sub = "Known"
    /\ public_params.curve = "Curve25519"

\* the check of the legacy parameters made for version 6 only
legacy_outside_v6_only(version, public_params) ==
    IF version = V6 /\ IsEcdhCurve25519(public_params)
    THEN KErr("Message: ECDH over Curve25519 is illegal for key version")
    ELSE IF version = V6 /\ public_params.variant = "EdDSALegacy"
    THEN KErr("Message: EdDSALegacy is illegal for key version")
    ELSE NoOutcome

\* lines 257-278: Ed25519Legacy and Curve25519Legacy are used only in version 4 keys
legacy_outside_v4(version, public_params) ==
    IF version # V4 /\ IsEcdhCurve25519(public_params)
    THEN KErr("Message: ECDH over Curve25519 is illegal for key version")
    ELSE IF version # V4 /\ public_params.variant = "EdDSALegacy"
    THEN KErr("Message: EdDSALegacy is illegal for key version")
    ELSE NoOutcome

\* the check of the algorithm made for version 3 only
non_rsa_in_v3_only(version, algorithm) ==
    IF version = V3 /\ algorithm \notin {RSA, RSAEncrypt, RSASign}
    THEN KErr("Unsupported: Invalid algorithm for key version")
    ELSE NoOutcome

\* lines 242-255: none of the ECC methods are allowed with version 2 and 3 keys
non_rsa_in_v2_v3(version, algorithm) ==
    IF version \in {V2, V3} /\ algorithm \notin {RSA, RSAEncrypt, RSASign}
    THEN KErr("Unsupported: Invalid algorithm for key version")
    ELSE NoOutcome

\* PubKeyInner::new (the build without draft-pqc)
PubKeyInner_new(version, algorithm, created_at, expiration, public_params) ==
    IF non_rsa_in_v2_v3(version, algorithm).kind = "Err"
    THEN non_rsa_in_v2_v3(version, algorithm)
    ELSE IF legacy_outside_v4(version, public_params).kind = "Err"
    THEN legacy_outside_v4(version, public_params)
    ELSE KOk([version |-> version, algorithm |-> algorithm, created_at |-> created_at,
              expiration |-> expiration, public_params |-> public_params])

\* lines 229-232: the key of the details parsed
PubKeyInner_of_details(details) ==
    IF ~details.ok THEN KErr(details.err)
    ELSE PubKeyInner_new(details.val.version, details.val.algorithm,
                         details.val.created_at, details.val.expiration,
                         details.val.public_params)

\* PubKeyInner::try_from_reader
PubKeyInner_try_from_reader(input) == PubKeyInner_of_details(parse(input))

\* Serialize for EcdsaPublicParams: to_writer
Ecdsa_to_writer(pp) ==
    <<Len(oid(pp.curve))>> \o oid(pp.curve) \o Mpi_to_writer(Mpi_from_slice(pp.p))

\* Serialize for EcdsaPublicParams: write_len
Ecdsa_write_len(pp) ==
    1 + Len(oid(pp.curve)) + Mpi_write_len(Mpi_from_slice(pp.p))

\* Serialize for PublicParams: to_writer
params_to_writer(pp) ==
    CASE pp.variant = "RSA" -> Mpi_to_writer(pp.n) \o Mpi_to_writer(pp.e)
      [] pp.variant = "DSA" ->
            Mpi_to_writer(pp.p) \o Mpi_to_writer(pp.q) \o Mpi_to_writer(pp.g) \o Mpi_to_writer(pp.y)
      [] pp.variant = "Elgamal" ->
            Mpi_to_writer(pp.p) \o Mpi_to_writer(pp.g) \o Mpi_to_writer(pp.y)
      [] pp.variant = "ECDSA" -> Ecdsa_to_writer(pp)
      [] pp.variant = "EdDSALegacy" ->
            <<Len(oid(pp.curve))>> \o oid(pp.curve) \o Mpi_to_writer(pp.q)
      [] pp.variant = "ECDH" ->
            <<Len(oid(pp.curve))>> \o oid(pp.curve)
            \o (IF pp.sub = "Known"
                THEN Mpi_to_writer(pp.p) \o <<3, 1, pp.hash, pp.alg_sym>>
                ELSE pp.opaque)
      [] pp.variant = "Ed25519" -> pp.public
      [] pp.variant = "X25519" -> pp.public
      [] pp.variant = "Unknown" -> pp.data

\* Serialize for PublicParams: write_len
params_write_len(pp) ==
    CASE pp.variant = "RSA" -> Mpi_write_len(pp.n) + Mpi_write_len(pp.e)
      [] pp.variant = "DSA" ->
            Mpi_write_len(pp.p) + Mpi_write_len(pp.q) + Mpi_write_len(pp.g) + Mpi_write_len(pp.y)
      [] pp.variant = "Elgamal" ->
            Mpi_write_len(pp.p) + Mpi_write_len(pp.g) + Mpi_write_len(pp.y)
      [] pp.variant = "ECDSA" -> Ecdsa_write_len(pp)
      [] pp.variant = "EdDSALegacy" -> 1 + Len(oid(pp.curve)) + Mpi_write_len(pp.q)
      [] pp.variant = "ECDH" ->
            1 + Len(oid(pp.curve))
            + (IF pp.sub = "Known" THEN Mpi_write_len(pp.p) + 4 ELSE Len(pp.opaque))
      [] pp.variant = "Ed25519" -> 32
      [] pp.variant = "X25519" -> 32
      [] pp.variant = "Unknown" -> Len(pp.data)

\* u32::try_from(created_at.timestamp())
timestamp_try_into(created_at) ==
    IF created_at.secs < 0 THEN KErr("TryFromIntError") ELSE KOk(created_at.secs)

\* (created_at.timestamp() as u32).to_be_bytes()
timestamp_as_u32(created_at) ==
    IF created_at.secs >= 0 THEN BE(created_at.secs, 4)
    ELSE [j \in 1..4 |-> 255 - ((((-created_at.secs) - 1) \div (256 ^ (4 - j))) % 256)]

to_writer_v2_v3(k) ==
    LET t == timestamp_try_into(k.created_at)
    IN  IF t.kind # "Ok" THEN t
        ELSE IF ~k.expiration.some THEN Panic("old key versions have an expiration")
        ELSE KOk(BE(t.val, 4) \o BE(k.expiration.v, 2) \o <<k.algorithm>>
                 \o params_to_writer(k.public_params))

writer_len_v2_v3(k) == 4 + 2 + 1 + params_write_len(k.public_params)

to_writer_v4_v6(k) ==
    LET t == timestamp_try_into(k.created_at)
    IN  IF t.kind # "Ok" THEN t
        ELSE KOk(BE(t.val, 4) \o <<k.algorithm>>
                 \o (IF k.version = V6 THEN BE(params_write_len(k.public_params), 4) ELSE <<>>)
                 \o params_to_writer(k.public_params))

writer_len_v4_v6(k) ==
    4 + 1 + (IF k.version = V6 THEN 4 ELSE 0) + params_write_len(k.public_params)

\* Serialize for PubKeyInner: to_writer (the version octet, then the fields)
PubKeyInner_to_writer(k) ==
    LET body == IF k.version \in {V2, V3} THEN to_writer_v2_v3(k)
                ELSE IF k.version \in {V4, V6} THEN to_writer_v4_v6(k)
                ELSE KErr("Unimplemented: key version")
    IN  IF body.kind = "Ok" THEN KOk(<<k.version>> \o body.val) ELSE body

\* Serialize for PubKeyInner: write_len
PubKeyInner_write_len(k) ==
    IF k.version \in {V2, V3} THEN KOk(1 + writer_len_v2_v3(k))
    ELSE IF k.version \in {V4, V6} THEN KOk(1 + writer_len_v4_v6(k))
    ELSE Panic("key version")

\* imprint hashing the version 4 layout for every version
imprint_v4_layout(k) ==
    LET packet_ == <<4>> \o timestamp_as_u32(k.created_at) \o <<k.algorithm>>
                  \o params_to_writer(k.public_params)
    IN  KOk(<<153>> \o BE(AsU16(Len(packet_)), 2) \o packet_)

\* PubKeyInner::imprint: the octets given to the hasher, in order
imprint(k) ==
    IF k.version \in {V2, V3} THEN KOk(params_to_writer(k.public_params))
    ELSE IF k.version = V4
    THEN LET packet_ == <<4>> \o timestamp_as_u32(k.created_at) \o <<k.algorithm>>
                       \o params_to_writer(k.public_params)
         IN  KOk(<<153>> \o BE(AsU16(Len(packet_)), 2) \o packet_)
    ELSE IF k.version = V6
    THEN LET len == params_write_len(k.public_params)
             total_len == 1 + 4 + 1 + 4 + len
         IN  KOk(<<155>> \o BE(total_len, 4) \o <<6>> \o timestamp_as_u32(k.created_at)
                 \o <<k.algorithm>> \o BE(len, 4) \o params_to_writer(k.public_params))
    ELSE KErr("Unsupported: Imprint for key version")

\* Md5, Sha1, Sha256: a digest of the length of the algorithm that depends on
\* the octets hashed and on their order
Digest(size, octets) ==
    [j \in 1..size |->
        IF octets = <<>> THEN j
        ELSE (octets[1 + (j % Len(octets))] * j + octets[Len(octets)] + Len(octets)) % 256]

\* KeyDetails::fingerprint: Md5 for V2 and V3, Sha1 for V4, Sha256 for V6
fingerprint(k) ==
    IF k.version \in {V2, V3} THEN KOk(Digest(16, imprint(k).val))
    ELSE IF k.version = V4 THEN KOk(Digest(20, imprint(k).val))
    ELSE IF k.version = V6 THEN KOk(Digest(32, imprint(k).val))
    ELSE Panic("unimplemented key version")

\* KeyDetails::key_id
key_id(k) ==
    IF k.version \in {V2, V3}
    THEN IF k.public_params.variant = "RSA"
         THEN LET n == k.public_params.n
              IN  IF Len(n) < 8 THEN Panic("attempt to subtract with overflow")
                  ELSE KOk(Drop(n, Len(n) - 8))
         ELSE Panic("invalid key constructed")
    ELSE IF k.version = V4
    THEN LET f == fingerprint(k).val IN KOk(Drop(f, Len(f) - 8))
    ELSE IF k.version = V6
    THEN KOk(Take(fingerprint(k).val, 8))
    ELSE Panic("unimplemented key version")

\* Tag: into u8
TagId(tag) ==
    CASE tag = "PublicKey" -> 6
      [] tag = "PublicSubkey" -> 14
      [] tag = "Padding" -> 21

\* PacketHeader: the header version (Old, New), the tag and the packet length:
\* Fixed(n) is SomeOpt(n), Indeterminate is NoneOpt
Header(version, tag, length) == [version |-> version, tag |-> tag, length |-> length]

\* PublicKey::new_with_header and PublicSubkey::new_with_header (tag: which of the two)
new_with_header(tag, packet_header, version, algorithm, created_at, expiration, public_params) ==
    LET inner == PubKeyInner_new(version, algorithm, created_at, expiration, public_params)
    IN  IF inner.kind # "Ok" THEN inner
        ELSE IF packet_header.length.some /\ PubKeyInner_write_len(inner.val).kind = "Panic"
        THEN PubKeyInner_write_len(inner.val)
        ELSE IF /\ packet_header.length.some
                /\ PubKeyInner_write_len(inner.val).val # packet_header.length.v
        THEN KErr("Message: inconsistent packet length")
        ELSE IF packet_header.tag # tag THEN KErr("Message: invalid tag")
        ELSE KOk([tag |-> tag, packet_header |-> packet_header, inner |-> inner.val])

\* PublicSubkey::from_inner_with_header: the header and the inner key, as given
from_inner_with_header(packet_header, inner) ==
    KOk([tag |-> "PublicSubkey", packet_header |-> packet_header, inner |-> inner])

\* lines 91-94 and 155-158: the packet of the inner key read
key_of_inner(tag, packet_header, inner) ==
    IF inner.kind # "Ok" THEN inner
    ELSE KOk([tag |-> tag, packet_header |-> packet_header, inner |-> inner.val])

\* PublicKey::try_from_reader and PublicSubkey::try_from_reader
try_from_reader(tag, packet_header, input) ==
    IF packet_header.tag # tag THEN KErr("Message: invalid tag")
    ELSE key_of_inner(tag, packet_header, PubKeyInner_try_from_reader(input))

\* Padding::from_buf
from_buf(packet_header, input) ==
    KOk([tag |-> "Padding", packet_header |-> packet_header, data |-> input])

\* Padding::new, data being what the rng fills in
Padding_new(packet_version, data) ==
    KOk([tag |-> "Padding",
         packet_header |-> Header(packet_version, "Padding", SomeOpt(Len(data))),
         data |-> data])

\* Serialize for Padding
Padding_to_writer(p) == KOk(p.data)
Padding_write_len(p) == KOk(Len(p.data))

\* Serialize of a packet: PublicKey and PublicSubkey hand over to their inner key
to_writer(p) ==
    IF p.tag = "Padding" THEN Padding_to_writer(p) ELSE PubKeyInner_to_writer(p.inner)
write_len(p) ==
    IF p.tag = "Padding" THEN Padding_write_len(p) ELSE PubKeyInner_write_len(p.inner)

\* Version::write_header
write_header(version, tag, len) ==
    IF version = "Old"
    THEN \* 0b1000_00xx | tag << 2
         LET shifted == 128 + ((tag * 4) % 128)
         IN  IF len < 256 THEN <<shifted, len>>
             ELSE IF len < 65536 THEN <<shifted + 1>> \o BE(len, 2)
             ELSE <<shifted + 2>> \o BE(len, 4)
    ELSE \* 0b1100_0000 | tag
         <<192 + (tag % 64)>>
         \o (IF len < 192 THEN <<len>>
             ELSE IF len < 8384 THEN <<(len - 192) \div 256 + 192, (len - 192) % 256>>
             ELSE <<255>> \o BE(len, 4))

\* the packet with its header: the header of the packet's version and tag for
\* the length of the body, then the body
to_bytes(p) ==
    LET body == to_writer(p)
    IN  IF body.kind # "Ok" THEN body
        ELSE KOk(write_header(p.packet_header.version, TagId(p.tag), Len(body.val)) \o body.val)

\* the header at the head of the octets i: the first octet has bit 7 set, bit 6
\* tells the new format; the tag is bits 5-0 (New) or 5-2 (Old); the length is
\* of one, two or five octets (New) or of the length type of bits 1-0 (Old)
header_from_buf(i) ==
    IF i = <<>> THEN PErr("Incomplete")
    ELSE IF i[1] < 128 THEN PErr("MalformedHeader")
    ELSE IF i[1] >= 192
    THEN LET tag == i[1] - 192
             l == Drop(i, 1)
         IN  IF l = <<>> THEN PErr("Incomplete")
             ELSE IF l[1] < 192 THEN POk(Drop(l, 1), [version |-> "New", tag |-> tag, length |-> SomeOpt(l[1])])
             ELSE IF l[1] < 224
             THEN IF Len(l) < 2 THEN PErr("Incomplete")
                  ELSE POk(Drop(l, 2), [version |-> "New", tag |-> tag,
                                        length |-> SomeOpt((l[1] - 192) * 256 + l[2] + 192)])
             ELSE IF l[1] = 255
             THEN IF Len(l) < 5 THEN PErr("Incomplete")
                  ELSE POk(Drop(l, 5), [version |-> "New", tag |-> tag,
                                        length |-> SomeOpt(FromBE(SubSeq(l, 2, 5)))])
             ELSE PErr("partial length")
    ELSE LET tag == (i[1] - 128) \div 4
             typ == i[1] % 4
             w == IF typ = 0 THEN 1 ELSE IF typ = 1 THEN 2 ELSE 4
             l == Drop(i, 1)
         IN  IF typ = 3 THEN POk(l, [version |-> "Old", tag |-> tag, length |-> NoneOpt])
             ELSE IF Len(l) < w THEN PErr("Incomplete")
             ELSE POk(Drop(l, w), [version |-> "Old", tag |-> tag,
                                   length |-> SomeOpt(FromBE(Take(l, w)))])

\* Packet::from_bytes of a framed Padding packet: the header, then the body of
\* the length the header tells
Padding_from_bytes(i) ==
    LET h == header_from_buf(i)
    IN  IF ~h.ok THEN KErr(h.err)
        ELSE IF h.val.tag # TagId("Padding") THEN KErr("not a Padding packet")
        ELSE IF ~h.val.length.some \/ h.val.length.v # Len(h.rest) THEN KErr("length")
        ELSE from_buf(Header(h.val.version, "Padding", h.val.length), h.rest)

\* BufParsing: read_u8, read_take and read_array of a Buf; the value and the
\* octets left, or the error of a Buf that is too short
read_u8(i) == IF Len(i) < 1 THEN PErr("TooShort") ELSE POk(Drop(i, 1), i[1])
read_take(n, i) == IF Len(i) < n THEN PErr("TooShort") ELSE POk(Drop(i, n), Take(i, n))
read_array(n, i) == read_take(n, i)

\* MpiBytes::from_buf
MpiBytes_from_buf(i) ==
    LET bits == read_take(2, i)
    IN  IF ~bits.ok THEN bits
        ELSE read_take((FromBE(bits.val) + 7) \div 8, bits.rest)

\* the length of the wrapped key, which always takes the size octet whole
skey_len_v6(version, len) == len

\* the length of the wrapped key: the size octet of a v3 PKESK counts the
\* algorithm octet
skey_len(version, len) == IF version = 3 THEN len - 1 ELSE len

\* PkeskBytes::X25519 or PkeskBytes::X448 of the wrapped key read
x_value(variant, ephemeral, sym_alg, esk) ==
    IF ~esk.ok THEN esk
    ELSE POk(esk.rest, [variant |-> variant, ephemeral |-> ephemeral,
                        sym_alg |-> sym_alg, session_key |-> esk.val])

\* the algorithm octet of a v3 PKESK, then the wrapped key
x_sym_alg(variant, version, ephemeral, len, i, alg) ==
    IF version = 3 /\ ~alg.ok THEN alg
    ELSE x_value(variant, ephemeral,
                 IF version = 3 THEN SomeOpt(alg.val) ELSE NoneOpt,
                 read_take(skey_len(version, len), IF version = 3 THEN alg.rest ELSE i))

\* the size octet of the fields that follow: not zero
x_len(variant, version, ephemeral, len) ==
    IF ~len.ok THEN len
    ELSE IF len.val = 0 THEN PErr("InvalidInput")
    ELSE x_sym_alg(variant, version, ephemeral, len.val, len.rest, read_u8(len.rest))

\* the ephemeral public key of 32 (X25519) or 56 (X448) octets
x_ephemeral(variant, version, ephemeral) ==
    IF ~ephemeral.ok THEN ephemeral
    ELSE x_len(variant, version, ephemeral.val, read_u8(ephemeral.rest))

\* the two MPIs of Elgamal
pkesk_elgamal(first) ==
    IF ~first.ok THEN first
    ELSE LET second == MpiBytes_from_buf(first.rest)
         IN  IF ~second.ok THEN second
             ELSE POk(second.rest, [variant |-> "Elgamal", first |-> first.val,
                                    second |-> second.val])

\* the point and the length-prefixed wrapped key of ECDH
pkesk_ecdh(public_point) ==
    IF ~public_point.ok THEN public_point
    ELSE LET session_key_len == read_u8(public_point.rest)
         IN  IF ~session_key_len.ok THEN session_key_len
             ELSE LET session_key == read_take(session_key_len.val, session_key_len.rest)
                  IN  IF ~session_key.ok THEN session_key
                      ELSE POk(session_key.rest,
                               [variant |-> "Ecdh", public_point |-> public_point.val,
                                encrypted_session_key |-> session_key.val])

pkesk_rsa(m) ==
    IF ~m.ok THEN m ELSE POk(m.rest, [variant |-> "Rsa", mpi |-> m.val])

\* PkeskBytes::from_buf: the values of a PKESK of an algorithm and a version,
\* and the octets it leaves in the Buf; curve448 is the feature
\* unstable-curve448 of the build
PkeskBytes_from_buf(alg, version, i, curve448) ==
    IF alg \in {RSA, RSASign, RSAEncrypt} THEN pkesk_rsa(MpiBytes_from_buf(i))
    ELSE IF alg \in {Elgamal, ElgamalEncrypt} THEN pkesk_elgamal(MpiBytes_from_buf(i))
    ELSE IF alg \in {ECDSA, DSA, DiffieHellman} THEN POk(i, [variant |-> "Other"])
    ELSE IF alg = ECDH THEN pkesk_ecdh(MpiBytes_from_buf(i))
    ELSE IF alg = X25519 THEN x_ephemeral("X25519", version, read_array(32, i))
    ELSE IF alg = X448
    THEN IF curve448 THEN x_ephemeral("X448", version, read_array(56, i))
         ELSE POk(i, [variant |-> "Other"])
    ELSE IF alg = UnknownAlg THEN POk(i, [variant |-> "Other"])
    ELSE PErr("Unsupported")

\* crypto::x25519::encrypt and crypto::x448::encrypt: the ephemeral key of n
\* octets and the wrapped key, eight octets longer than the plain text, of a
\* draw of the random number generator; a draw of 0 stands for a failure
x_encrypt(n, draw, plain) ==
    IF draw = 0 THEN KErr("crypto")
    ELSE KOk([ephemeral |-> Fill(n, draw), session_key |-> Fill(8, draw) \o plain])

\* the PkeskBytes of the ephemeral key and the wrapped key
x_encrypted(variant, sym_alg, wrapped) ==
    IF wrapped.kind # "Ok" THEN wrapped
    ELSE KOk([variant |-> variant, ephemeral |-> wrapped.val.ephemeral,
              sym_alg |-> sym_alg, session_key |-> wrapped.val.session_key])

\* X25519 and X448: byte 0 of the plain text of a v3 PKESK is the symmetric
\* algorithm, which is not wrapped
x_strip(variant, n, draw, plain, typ) ==
    IF typ = "V6" THEN x_encrypted(variant, NoneOpt, x_encrypt(n, draw, plain))
    ELSE IF plain = <<>> THEN KErr("plain may not be empty")
    ELSE x_encrypted(variant, SomeOpt(plain[1]), x_encrypt(n, draw, Drop(plain, 1)))

\* encrypt: the PkeskBytes of the session key `plain` for the key of the
\* parameters params; the primitives of RSA and ECDH, and the KDF and KEK
\* parameters a curve asks of a version 6 key, are outcomes given
encrypt(params, draw, plain, typ, given) ==
    CASE params.variant = "RSA" -> given
      [] params.variant = "EdDSALegacy" -> KErr("EdDSALegacy is only used for signing")
      [] params.variant = "Ed25519" -> KErr("Ed25519 is only used for signing")
      [] params.variant = "Ed448" -> KErr("Ed448 is only used for signing")
      [] params.variant = "ECDSA" -> KErr("ECDSA is only used for signing")
      [] params.variant = "ECDH" ->
            IF params.sub = "Unsupported" THEN KErr("Unsupported") ELSE given
      [] params.variant = "X25519" -> x_strip("X25519", 32, draw, plain, typ)
      [] params.variant = "X448" -> x_strip("X448", 56, draw, plain, typ)
      [] params.variant = "Elgamal" -> KErr("Unimplemented")
      [] params.variant = "DSA" -> KErr("DSA is only used for signing")
      [] params.variant = "Unknown" -> KErr("Unknown algorithm")

\* The inputs: public parameters of every variant, with the algorithm the
\* caller names for them (the last ones are not the algorithm of their variant)
PointP256 == <<4>> \o Fill(64, 7)
RsaParams == [variant |-> "RSA", n |-> <<200, 1, 2, 3, 4, 5, 6, 7, 9>>, e |-> <<1, 0, 1>>]
RsaShort == [variant |-> "RSA", n |-> <<3, 5>>, e |-> <<3>>]
EdLegacyParams == [variant |-> "EdDSALegacy", curve |-> "Ed25519", q |-> <<64>> \o Fill(32, 1)]
Ed25519Params == [variant |-> "Ed25519", public |-> Fill(32, 5)]
UnknownParams(k) == [variant |-> "Unknown", data |-> Fill(k, 9)]
AlgParams ==
    {<<RSA, RsaParams>>, <<RSASign, RsaShort>>, <<RSAEncrypt, RsaParams>>,
     <<DSA, [variant |-> "DSA", p |-> <<7>>, q |-> <<3>>, g |-> <<2>>, y |-> <<1, 5>>]>>,
     <<Elgamal, [variant |-> "Elgamal", p |-> <<7>>, g |-> <<2>>, y |-> <<5>>]>>,
     <<ECDSA, [variant |-> "ECDSA", sub |-> "P256", curve |-> "P256", p |-> PointP256]>>,
     <<ECDSA, [variant |-> "ECDSA", sub |-> "Unsupported", curve |-> "BrainpoolP256r1",
               p |-> <<4, 9>>]>>,
     <<ECDH, EcdhKnown("Curve25519", <<64>> \o Fill(32, 2), 8, 7)>>,
     <<ECDH, EcdhKnown("P256", PointP256, 8, 7)>>,
     <<ECDH, EcdhUnsupported("Secp256k1", <<>>)>>,
     <<ECDH, EcdhUnsupported("Secp256k1", <<1>>)>>,
     <<EdDSALegacy, EdLegacyParams>>,
     <<Ed25519, Ed25519Params>>,
     <<X25519, [variant |-> "X25519", public |-> Fill(32, 6)]>>}
    \cup {<<a, UnknownParams(k)>> : a \in {Ed448, X448, DiffieHellman, Private100, UnknownAlg},
                                    k \in 0..MaxData}
    \cup {<<RSA, Ed25519Params>>, <<RSA, EdLegacyParams>>, <<Ed25519, RsaParams>>,
          <<ECDSA, UnknownParams(1)>>}

\* creation time and validity days, as the caller of the constructor gives them
TimesAndDays ==
    {<<Time(0, 0), NoneOpt>>, <<Time(1000, 0), SomeOpt(10)>>,
     <<Time(1000, 1), NoneOpt>>, <<Time(-1, 0), SomeOpt(0)>>}

KeyTags == {"PublicKey", "PublicSubkey"}

\* the header the caller gives: of the length of the key, of another length,
\* or of the tag of the other key packet
HeaderChoices == {"fixed", "other_len", "other_tag"}
HeaderOf(choice, tag, len) ==
    CASE choice = "fixed" -> Header("New", tag, SomeOpt(len))
      [] choice = "other_len" -> Header("Old", tag, SomeOpt(len + 1))
      [] choice = "other_tag" ->
            Header("New", CHOOSE t \in KeyTags : t # tag, SomeOpt(len))

\* the constructors of a key packet from its fields; from_inner_with_header is
\* given the inner key of PubKeyInner::new
Constructors ==
    {<<"new_with_header", "PublicKey">>, <<"new_with_header", "PublicSubkey">>,
     <<"from_inner_with_header", "PublicSubkey">>}

\* the keys whose bodies the parser is given: every key to_writer can write,
\* whether the constructor accepts it or not
SampleKeys ==
    {k \in {[version |-> v, algorithm |-> ap[1], created_at |-> td[1], expiration |-> td[2],
             public_params |-> ap[2]] : v \in KeyVersions, ap \in AlgParams, td \in TimesAndDays} :
        PubKeyInner_to_writer(k).kind = "Ok"}

\* the body b with its version octet replaced
WithVersion(b, v) == <<v>> \o Drop(b, 1)
\* the body b of a version 6 key with its octet count replaced
WithCount(b, n) == Take(b, 6) \o BE(n, 4) \o Drop(b, 10)
CountOf(b) == be_u32(SubSeq(b, 7, 10)).val

\* the bodies the parser is given: those of the sample keys, and the same with
\* an octet more, an octet less, another version, another octet count
KeyBodies ==
    LET good == {PubKeyInner_to_writer(k).val : k \in SampleKeys}
        v6 == {b \in good : b[1] = V6}
        counted == {WithCount(b, n) : b \in v6, n \in {0, 1}}
                   \cup {WithCount(b, CountOf(b) + d) : b \in v6, d \in {-1, 1}}
        base == good \cup counted
                \cup {WithVersion(b, v) : b \in good, v \in {V5, OtherVersion}}
    IN  base \cup {b \o <<0>> : b \in base} \cup {Take(b, Len(b) - 1) : b \in good}

\* the data of the Padding packets
PaddingData == {Fill(k, 170) : k \in 0..MaxData} \cup {Fill(192, 1)}

\* the octets Packet::from_bytes is given: Padding packets as write_header
\* frames them in both header versions, and in the new format with the
\* length in five octets
FramedPaddings ==
    {write_header(v, TagId("Padding"), Len(d)) \o d : v \in {"Old", "New"}, d \in PaddingData}
    \cup {<<192 + TagId("Padding"), 255>> \o BE(Len(d), 4) \o d : d \in PaddingData}

PacketInit ==
    /\ kpc = "start"
    /\ kin = NoInput
    /\ pkt = NoOutcome
    /\ krest = <<>>
    /\ wbytes = NoOutcome
    /\ wlen = NoOutcome
    /\ wframed = NoOutcome
    /\ reparsed = NoOutcome
    /\ hashed = NoOutcome
    /\ kid = NoOutcome
    /\ pkesk = NoOutcome

\* a caller builds a key packet with PublicKey::new_with_header or
\* PublicSubkey::new_with_header, or with PubKeyInner::new and
\* PublicSubkey::from_inner_with_header
KeyNew ==
    /\ kpc = "start"
    /\ \E c \in Constructors, v \in KeyVersions, ap \in AlgParams, td \in TimesAndDays,
          choice \in HeaderChoices :
        LET k == [version |-> v, algorithm |-> ap[1], created_at |-> td[1],
                  expiration |-> td[2], public_params |-> ap[2]]
            len == IF PubKeyInner_write_len(k).kind = "Ok" THEN PubKeyInner_write_len(k).val ELSE 0
            h == HeaderOf(choice, c[2], len)
            inner == PubKeyInner_new(v, ap[1], td[1], td[2], ap[2])
        IN  /\ kin' = [op |-> "new", ctor |-> c[1], tag |-> c[2], packet_header |-> h, key |-> k]
            /\ pkt' = IF c[1] = "new_with_header"
                      THEN new_with_header(c[2], h, v, ap[1], td[1], td[2], ap[2])
                      ELSE IF inner.kind # "Ok" THEN inner
                      ELSE from_inner_with_header(h, inner.val)
    /\ kpc' = "built"
    /\ UNCHANGED <<krest, wbytes, wlen, wframed, reparsed, hashed, kid, pkesk>>
    /\ UNCHANGED <<parserVars, aeadVars>>

\* a key packet is parsed with PublicKey::try_from_reader or
\* PublicSubkey::try_from_reader
KeyParse ==
    /\ kpc = "start"
    /\ \E tag \in KeyTags, b \in KeyBodies, choice \in {"fixed", "other_tag"} :
        LET h == HeaderOf(choice, tag, Len(b))
        IN  /\ kin' = [op |-> "parse", tag |-> tag, packet_header |-> h, bytes |-> b]
            /\ pkt' = try_from_reader(tag, h, b)
            /\ krest' = parse(b).rest
    /\ kpc' = "built"
    /\ UNCHANGED <<wbytes, wlen, wframed, reparsed, hashed, kid, pkesk>>
    /\ UNCHANGED <<parserVars, aeadVars>>

\* Padding::new
PaddingNew ==
    /\ kpc = "start"
    /\ \E v \in {"Old", "New"}, d \in PaddingData :
        /\ kin' = [op |-> "padding_new", packet_version |-> v, data |-> d]
        /\ pkt' = Padding_new(v, d)
    /\ kpc' = "built"
    /\ UNCHANGED <<krest, wbytes, wlen, wframed, reparsed, hashed, kid, pkesk>>
    /\ UNCHANGED <<parserVars, aeadVars>>

\* a framed Padding packet is parsed: the header, then Padding::from_buf
PaddingParse ==
    /\ kpc = "start"
    /\ \E b \in FramedPaddings :
        /\ kin' = [op |-> "padding_parse", bytes |-> b]
        /\ pkt' = Padding_from_bytes(b)
    /\ kpc' = "built"
    /\ UNCHANGED <<krest, wbytes, wlen, wframed, reparsed, hashed, kid, pkesk>>
    /\ UNCHANGED <<parserVars, aeadVars>>

\* the packet is serialized: write_len, to_writer, and the framed packet
ToWriter ==
    /\ kpc = "built"
    /\ pkt.kind = "Ok"
    /\ wlen' = write_len(pkt.val)
    /\ wbytes' = to_writer(pkt.val)
    /\ wframed' = to_bytes(pkt.val)
    /\ kpc' = "written"
    /\ UNCHANGED <<kin, pkt, krest, reparsed, hashed, kid, pkesk>>
    /\ UNCHANGED <<parserVars, aeadVars>>

\* the octets written are parsed with the header of the packet
Reparse ==
    /\ kpc = "written"
    /\ wbytes.kind = "Ok"
    /\ reparsed' = IF pkt.val.tag = "Padding"
                   THEN from_buf(pkt.val.packet_header, wbytes.val)
                   ELSE try_from_reader(pkt.val.tag, pkt.val.packet_header, wbytes.val)
    /\ kpc' = "reparsed"
    /\ UNCHANGED <<kin, pkt, krest, wbytes, wlen, wframed, hashed, kid, pkesk>>
    /\ UNCHANGED <<parserVars, aeadVars>>

\* imprint and key_id of the key
Identity ==
    /\ kpc \in {"built", "written", "reparsed"}
    /\ pkt.kind = "Ok"
    /\ pkt.val.tag \in KeyTags
    /\ kid = NoOutcome
    /\ pkesk = NoOutcome
    /\ hashed' = imprint(pkt.val.inner)
    /\ kid' = key_id(pkt.val.inner)
    /\ UNCHANGED <<kpc, kin, pkt, krest, wbytes, wlen, wframed, reparsed, pkesk>>
    /\ UNCHANGED <<parserVars, aeadVars>>

\* the tags of the Tag enumeration
Tags == (1..14) \cup {17, 18, 19}

\* the body lengths a header is written for: the least and greatest length of
\* every length form of both header versions
HeaderLengths == {0, 191, 192, 255, 256, 8383, 8384, 65535, 65536, 2147483647}

\* Version::write_header writes the header of a packet of a tag and a length
WriteHeader ==
    /\ kpc = "start"
    /\ \E v \in {"Old", "New"}, tag \in Tags, len \in HeaderLengths :
        /\ kin' = [op |-> "write_header", version |-> v, tag |-> tag, len |-> len]
        /\ wframed' = KOk(write_header(v, tag, len))
    /\ kpc' = "header"
    /\ UNCHANGED <<pkt, krest, wbytes, wlen, reparsed, hashed, kid, pkesk>>
    /\ UNCHANGED <<parserVars, aeadVars>>

\* the octets after the ephemeral key of a PKESK, and the session keys given
\* to encrypt with the symmetric algorithm in byte 0
EskTails == UNION {[1..n -> {0, 1, 2, 9}] : n \in 0..(MaxData + 1)}

\* the octets PkeskBytes::from_buf is given for an algorithm: with the whole
\* ephemeral key of X25519 and X448, and with an octet less
EskBytes(alg) ==
    IF alg = X25519 THEN {Fill(32, 7) \o t : t \in EskTails} \cup {Fill(31, 7)}
    ELSE IF alg = X448 THEN {Fill(56, 7) \o t : t \in EskTails} \cup {Fill(55, 7)}
    ELSE EskTails

EskAlgorithms == {RSA, Elgamal, ECDSA, ECDH, X25519, X448, UnknownAlg, Ed25519}

\* the parameters of the keys encrypt is given
EskParams ==
    {ap[2] : ap \in AlgParams} \cup {[variant |-> "X448", public |-> Fill(56, 6)],
                                     [variant |-> "Ed448", public |-> Fill(57, 6)]}

\* what the calls of encrypt that are not of this module return
GivenOutcomes == {KErr("crypto"), KOk([variant |-> "Primitive"])}

\* the values of a PKESK packet of version 3 or 6 are parsed
EskParse ==
    /\ kpc = "start"
    /\ \E alg \in EskAlgorithms, version \in {3, 6}, curve448 \in BOOLEAN :
        \E b \in EskBytes(alg) :
            LET p == PkeskBytes_from_buf(alg, version, b, curve448)
            IN  /\ kin' = [op |-> "esk_parse", alg |-> alg, version |-> version,
                           bytes |-> b, curve448 |-> curve448]
                /\ pkesk' = IF p.ok THEN KOk(p.val) ELSE KErr(p.err)
                /\ krest' = p.rest
    /\ kpc' = "esk"
    /\ UNCHANGED <<pkt, wbytes, wlen, wframed, reparsed, hashed, kid>>
    /\ UNCHANGED <<parserVars, aeadVars>>

\* a session key is encrypted to a key, for a PKESK of version 3 or 6
EskEncrypt ==
    /\ kpc = "start"
    /\ \E params \in EskParams, plain \in EskTails, typ \in {"V3_4", "V6"},
          draw \in {0, 5}, given \in GivenOutcomes :
        /\ kin' = [op |-> "encrypt", params |-> params, plain |-> plain, typ |-> typ,
                   draw |-> draw]
        /\ pkesk' = encrypt(params, draw, plain, typ, given)
    /\ kpc' = "esk"
    /\ UNCHANGED <<pkt, krest, wbytes, wlen, wframed, reparsed, hashed, kid>>
    /\ UNCHANGED <<parserVars, aeadVars>>

PacketNext ==
    \/ KeyNew \/ KeyParse \/ PaddingNew \/ PaddingParse
    \/ ToWriter \/ Reparse \/ Identity
    \/ WriteHeader \/ EskParse \/ EskEncrypt

(***************************************************************************)
(* The specifications.  Each runs one part; the other parts are at rest.   *)
(***************************************************************************)
ParserIdle ==
    /\ pc = "off"
    /\ consumed = <<>>
    /\ eof = FALSE
    /\ esks = <<>>
    /\ stack = <<>>
    /\ returned = NoResult
    /\ result = NoResult

AeadIdle ==
    /\ apc = "off"
    /\ inp = [sym_alg |-> "", aead |-> "", chunk_size |-> 0, session_key |-> <<>>,
              plaintext |-> <<>>, salt |-> <<>>]
    /\ info = <<>>
    /\ message_key = <<>>
    /\ nonce = <<>>
    /\ chunk_index = 0
    /\ pos = 0
    /\ out = <<>>
    /\ out_len = 0
    /\ packet = NoPacket
    /\ enc_result = ANone
    /\ tampered = FALSE
    /\ altered = "no"
    /\ dec_key = <<>>
    /\ dec_result = ANone
    /\ calls = <<>>

PacketIdle ==
    /\ kpc = "off"
    /\ kin = NoInput
    /\ pkt = NoOutcome
    /\ krest = <<>>
    /\ wbytes = NoOutcome
    /\ wlen = NoOutcome
    /\ wframed = NoOutcome
    /\ reparsed = NoOutcome
    /\ hashed = NoOutcome
    /\ kid = NoOutcome
    /\ pkesk = NoOutcome

Init == ParserInit /\ AeadIdle /\ PacketIdle
Next == ParserNext
Spec == Init /\ [][Next]_vars

\* the call is not suspended: while `next` has a step to take, it takes one
SpecFair == Init /\ [][Next]_vars /\ WF_vars(Next)

InitAead == AeadInit /\ ParserIdle /\ PacketIdle
NextAead ==
    \/ EncryptRejectKey \/ EncryptStart \/ EncryptChunk \/ EncryptFinal
    \/ Tamper
    \/ DecryptRejectKey \/ DecryptStart \/ DecryptChunk \/ DecryptFinal
SpecAead == InitAead /\ [][NextAead]_vars

InitWire == AeadWireInit /\ ParserIdle /\ PacketIdle
NextWire == AeadWireNext
SpecWire == InitWire /\ [][NextWire]_vars

InitPacket == PacketInit /\ ParserIdle /\ AeadIdle
NextPacket == PacketNext
SpecPacket == InitPacket /\ [][NextPacket]_vars

(***************************************************************************)
(* Properties of the message recognizer (specification Spec).              *)
(***************************************************************************)
\* the collected ESKs whose version goes with edata
AlignedWith(collected, edata) == SelectSeq(collected, LAMBDA e : Aligned(e, edata))

\* C1: when the recognizer returns an Encrypted node, every ESK of the node
\* has the version that goes with the node's edata (PKESK v3 / SKESK v4 with
\* SED and SEIPDv1, PKESK v6 / SKESK v6 with SEIPDv2) and is one of the ESKs
\* read before the edata; no ESK of the other family is in the list.
C1_EskFilter ==
    ReturnedEncrypted =>
        LET enc == Innermost(result.msg)
        IN  /\ \A i \in 1..Len(enc.esk) : Aligned(enc.esk[i], enc.edata)
            /\ \A i \in 1..Len(enc.esk) : \E j \in 1..Len(esks) : esks[j] = enc.esk[i]
            /\ \A j \in 1..Len(esks) :
                ~Aligned(esks[j], enc.edata)
                    => \A i \in 1..Len(enc.esk) : enc.esk[i] # esks[j]

\* an Encrypted node was returned with some ESKs kept and some dropped
C1_Witness ==
    /\ ReturnedEncrypted
    /\ Len(Innermost(result.msg).esk) >= 1
    /\ Len(Innermost(result.msg).esk) < Len(esks)

\* C2 as stated: every Encrypted node the recognizer returns has at least one
\* ESK of the version family of its edata.
C2_Original ==
    ReturnedEncrypted =>
        LET enc == Innermost(result.msg)
        IN  /\ Len(enc.esk) >= 1
            /\ \E i \in 1..Len(enc.esk) : Aligned(enc.esk[i], enc.edata)

\* C2 as amended: every Encrypted node the recognizer returns was preceded by
\* at least one ESK packet, and its ESK list is exactly the ESKs read, in
\* order, whose version goes with the edata: the list is empty exactly when
\* every ESK read is of the other family.
C2_Amended ==
    ReturnedEncrypted =>
        LET enc == Innermost(result.msg)
        IN  /\ Len(esks) >= 1
            /\ enc.esk = AlignedWith(esks, enc.edata)
            /\ (enc.esk = <<>>) <=> (\A j \in 1..Len(esks) : ~Aligned(esks[j], enc.edata))

\* an Encrypted node was returned that kept two ESKs
C2_Witness ==
    /\ ReturnedEncrypted
    /\ Len(Innermost(result.msg).esk) >= 2

\* C3: when the edata packet arrives and no ESK read before it has the
\* version that goes with it, the call of `next` that read them still returns
\* a Message, the Encrypted node with that edata and an empty ESK list, and
\* so does the outermost call unless a signature reader around the node
\* cannot be built.
C3_ParseSucceedsWithoutEsk ==
    (/\ pc = "done"
     /\ esks # <<>>
     /\ Last(consumed).tag \in EdataTags
     /\ Last(consumed).ok
     /\ \A j \in 1..Len(esks) : ~Aligned(esks[j], Last(consumed)))
        => /\ returned = Ok(Encrypted(<<>>, Last(consumed)))
           /\ result # Err("signature reader")
                => /\ result.kind = "Some"
                   /\ Innermost(result.msg) = Encrypted(<<>>, Last(consumed))

\* an edata packet arrived after ESKs of the other family only
C3_Witness ==
    /\ pc = "done"
    /\ Len(esks) >= 2
    /\ Last(consumed).tag \in EdataTags
    /\ \A j \in 1..Len(esks) : ~Aligned(esks[j], Last(consumed))
    /\ result.kind = "Some"

\* every packet read could be read to its end, and every signature reader built
WellFormed ==
    /\ \A i \in 1..Len(consumed) : consumed[i].ok
    /\ result \notin {Err("packet"), Err("signature reader")}

\* C4: the recognizer returns on a stream of well-formed packets what it
\* returns on the stream without its Marker and Padding packets: the same
\* message (same variant, same ESK list, same packets) when that stream is a
\* valid message, and the same None or error when it is not.
C4_SkipMarkerPadding ==
    (pc = "done" /\ WellFormed) => result = next(Strip(consumed), 1)

\* a message was returned from a stream with a Marker or Padding packet
\* after a Signature / One-Pass-Signature packet and the first ESK
C4_Witness ==
    /\ ReturnedEncrypted
    /\ result.msg.variant \in {"Signed", "SignedOnePass"}
    /\ \E i \in 1..Len(consumed) :
        /\ consumed[i].tag \in SkipTags
        /\ FirstEsk(consumed) < i

\* C5: once the first ESK has been read, the end of the stream makes the
\* recognizer fail with "missing encrypted data packet", a packet that is
\* not a PKESK, SKESK, SED, SEIPD, Padding or Marker makes it fail with
\* "unexpected tag", and a Message is returned only at an edata packet that
\* nothing but PKESK, SKESK, Padding and Marker packets separate from the
\* first ESK.
C5_EskLoopFailures ==
    (pc = "done" /\ esks # <<>>) =>
        /\ eof => result = Err("missing encrypted data packet")
        /\ (~eof /\ Last(consumed).tag \notin EskTags \cup EdataTags \cup SkipTags)
              => result = Err("unexpected tag in an encrypted message")
        /\ result.kind # "None"
        /\ result.kind = "Some" =>
              /\ Last(consumed).tag \in EdataTags
              /\ \A i \in (FirstEsk(consumed) + 1)..(Len(consumed) - 1) :
                    consumed[i].tag \in EskTags \cup SkipTags

\* the recognizer failed on an unexpected tag after an ESK and a skipped packet
C5_Witness ==
    /\ pc = "done"
    /\ esks # <<>>
    /\ result = Err("unexpected tag in an encrypted message")
    /\ \E i \in 1..Len(consumed) : consumed[i].tag \in SkipTags /\ FirstEsk(consumed) < i

(***************************************************************************)
(* Properties of SEIPDv2 (specification SpecAead).                         *)
(***************************************************************************)
\* the chunk length and the number of chunks of the plaintext
ChunkLen == expand_chunk_size(inp.chunk_size)
NumChunks == (Len(inp.plaintext) + ChunkLen - 1) \div ChunkLen
Decrypted == apc = "dec_done" /\ Len(dec_key) = key_size(packet.sym_alg)

C7_AuthBeforeRelease ==
    /\ (tampered /\ Decrypted)
          => dec_result = AErr("authentication") /\ out = <<>>
    /\ dec_result.kind = "Ok"
          => /\ ~tampered
             /\ Len(calls) = NumChunks + 1
             /\ calls[Len(calls)].ad = info \o be64(Len(dec_result.data))
    /\ dec_result.kind = "Err" => dec_result.data = <<>>

\* the final tag was altered: every chunk verified, then decrypt failed
C7_Witness ==
    /\ tampered
    /\ Decrypted
    /\ chunk_index >= 2
    /\ pos = Len(main_chunks)
    /\ dec_result.kind = "Err"

\* C8: the data of the packet is plaintext_len + (num_chunks + 1) * tag_size
\* octets long, num_chunks being ceil(plaintext_len / chunk_size); what
\* decrypt returns is main_len - num_chunks * tag_size octets long; neither
\* debug assertion on out_len fails.
C8_OutputLength ==
    /\ apc # "panic"
    /\ enc_result.kind = "Ok"
          => Len(packet.data)
                = Len(inp.plaintext) + (NumChunks + 1) * tag_size(inp.aead)
    /\ dec_result.kind = "Ok"
          => LET ts == tag_size(packet.aead)
                 main_len == Len(packet.data) - ts
                 n == (main_len + ChunkLen + ts - 1) \div (ChunkLen + ts)
             IN  Len(dec_result.data) = main_len - n * ts

\* a plaintext of two full chunks was encrypted and decrypted
C8_Witness ==
    /\ dec_result.kind = "Ok"
    /\ Len(inp.plaintext) = 2 * ChunkLen

\* the nonce prefix HKDF derives for the running operation
NoncePrefix ==
    LET enc == apc \in {"enc_loop", "enc_done"}
        sa == IF enc THEN inp.sym_alg ELSE packet.sym_alg
        ae == IF enc THEN inp.aead ELSE packet.aead
        cs == IF enc THEN inp.chunk_size ELSE packet.chunk_size
        salt == IF enc THEN inp.salt ELSE packet.salt
        key == IF enc THEN inp.session_key ELSE dec_key
        info_ == <<D(TagEncode), D(2), D(SymId(sa)), D(AeadId(ae)), D(cs)>>
    IN  SubSeq(HkdfExpand(salt, key, info_), key_size(sa) + 1,
               key_size(sa) + nonce_size(ae) - 8)

\* the AEAD calls of the running operation use index 0, 1, 2, ..., the nonce
\* prefix || be64(index) and, but for the final tag, the associated data info
C9_Nonces ==
    (apc \in {"enc_loop", "enc_done", "dec_loop"} \/ Decrypted) =>
        /\ \A k \in 1..Len(calls) :
            /\ calls[k].index = k - 1
            /\ calls[k].nonce = NoncePrefix \o be64(k - 1)
        /\ \A j, k \in 1..Len(calls) : j # k => calls[j].nonce # calls[k].nonce
        /\ apc \in {"enc_loop", "dec_loop"} =>
            /\ chunk_index = Len(calls)
            /\ nonce = NoncePrefix \o be64(chunk_index)
            /\ \A k \in 1..Len(calls) : calls[k].ad = info
        /\ (apc = "enc_done" \/ dec_result.kind = "Ok") =>
            /\ Len(calls) = NumChunks + 1
            /\ \A k \in 1..NumChunks : calls[k].ad = info
            /\ calls[NumChunks + 1].index = NumChunks
            /\ calls[NumChunks + 1].ad = info \o be64(Len(inp.plaintext))

\* a step leaves the chunk index alone, adds 1 to it after a chunk, or sets
\* it to 0 when an operation starts
C9_Step ==
    \/ chunk_index' = chunk_index
    \/ chunk_index' = chunk_index + 1 /\ apc \in {"enc_loop", "dec_loop"}
                                      /\ Len(calls') = Len(calls) + 1
    \/ chunk_index' = 0 /\ apc \in {"start", "enc_done"}

\* C9: in encryption and decryption the chunk index starts at 0 and grows by
\* exactly 1 with each chunk; chunk i is processed with the nonce
\* prefix || be64(i), the final tag with index = number of chunks and the
\* associated data info || be64(plaintext length); the prefix is the one HKDF
\* derived throughout, and the nonces of one operation are pairwise distinct.
C9_ChunkIndex == []C9_Nonces /\ [][C9_Step]_vars

\* an encryption made three AEAD calls: two chunks and the final tag
C9_Witness ==
    /\ apc = "enc_done"
    /\ Len(calls) = 3
    /\ chunk_index = 2

\* C10: encrypt_seipdv2 and decrypt fail, with no packet and no plaintext,
\* when the session key is not of the key size of the symmetric algorithm.
C10_KeyLength ==
    /\ (apc # "start" /\ Len(inp.session_key) # key_size(inp.sym_alg))
          => /\ apc = "enc_err"
             /\ enc_result = AErr("Unexpected session key length")
             /\ packet = NoPacket
             /\ out = <<>>
             /\ calls = <<>>
    /\ (apc \in {"dec_loop", "dec_done"} /\ Len(dec_key) # key_size(packet.sym_alg))
          => /\ apc = "dec_done"
             /\ dec_result = AErr("Unexpected session key length")
             /\ out = <<>>

\* decrypt was given a key of another algorithm's size
C10_Witness ==
    /\ apc = "dec_done"
    /\ Len(dec_key) # key_size(packet.sym_alg)
    /\ dec_result.kind = "Err"
    /\ enc_result.kind = "Ok"

(***************************************************************************)
(* Properties of key and Padding packets (specification SpecPacket).       *)
(***************************************************************************)
\* what the constructor of the inner key is given: the fields of the caller of
\* new_with_header, or the details the parser read from the body
Given ==
    IF kin.op = "new" THEN KOk(kin.key)
    ELSE IF kin.op = "parse" /\ kin.packet_header.tag = kin.tag /\ parse(kin.bytes).ok
    THEN KOk(parse(kin.bytes).val)
    ELSE NoOutcome

\* the error kinds of the messages of PubKeyInner::new and of the parser
InvalidKeyErrors ==
    {"Message: ECDH over Curve25519 is illegal for key version",
     "Message: EdDSALegacy is illegal for key version"}
UnsupportedErrors ==
    {"Unsupported: Invalid algorithm for key version", "Unsupported: Unsupported key version"}

IsLegacy25519(public_params) ==
    public_params.variant = "EdDSALegacy" \/ IsEcdhCurve25519(public_params)
IsRsaAlgorithm(algorithm) == algorithm \in {RSA, RSAEncrypt, RSASign}
KeyBuilt == kpc # "start" /\ Given.kind = "Ok"

C13_NoV5Key ==
    (pkt.kind = "Ok" /\ pkt.val.tag \in KeyTags) => pkt.val.inner.version \in {V2, V3, V4, V6}

\* a version 6 body has been given to the parser, with a creation time, an
\* algorithm and an octet count
ParsedV6 ==
    /\ kpc # "start"
    /\ kin.op = "parse"
    /\ kin.packet_header.tag = kin.tag
    /\ Len(kin.bytes) >= 10
    /\ kin.bytes[1] = V6

\* the octets the parameter parser of the algorithm consumes of the octets
\* that follow the count of a version 6 body
ParamsOfV6 == parse_pub_fields(kin.bytes[6], SomeOpt(CountOf(kin.bytes)), Drop(kin.bytes, 10))
ConsumedV6 == Len(kin.bytes) - 10 - Len(ParamsOfV6.rest)

\* the errors of the parsers of key packets that tell malformed input
MalformedInputErrors ==
    {"InvalidInput", "Incomplete", "Message: Inconsistent pub_len in secret key packet"}

\* C14: in a version 6 key the four-octet count of the parameters equals the
\* number of octets the parameter parser of the algorithm consumes: a count
\* smaller or larger than that, and a count of more octets than the input
\* holds, fail with a MalformedInput error, and a key that is parsed has a
\* count equal to the octets consumed.
C14_ParamsLen ==
    ParsedV6 =>
        /\ (CountOf(kin.bytes) > Len(kin.bytes) - 10)
               => (pkt.kind = "Err" /\ pkt.err \in MalformedInputErrors)
        /\ (ParamsOfV6.ok /\ ConsumedV6 # CountOf(kin.bytes))
               => (pkt.kind = "Err" /\ pkt.err \in MalformedInputErrors)
        /\ pkt.kind = "Ok" => (ParamsOfV6.ok /\ ConsumedV6 = CountOf(kin.bytes))

\* a version 6 body whose count is one more than its parameters, with that
\* many octets in the input, has been refused
C14_Witness ==
    /\ ParsedV6
    /\ ParamsOfV6.ok
    /\ CountOf(kin.bytes) = ConsumedV6 + 1
    /\ CountOf(kin.bytes) <= Len(kin.bytes) - 10
    /\ pkt.kind = "Err"
    /\ pkt.err = "Message: Inconsistent pub_len in secret key packet"

\* the algorithm IDs parse_pub_fields hands to `unknown`
UnknownAlgorithms == {Ed448, X448, DiffieHellman, Private100, UnknownAlg}

\* C15: for an unknown or private-use algorithm ID the parameter parser
\* consumes exactly the octets the count declares in a version 6 key and no
\* octet in a version 4 key, and the key holds the octets consumed as the
\* data of PublicParams::Unknown.
C15_UnknownAlgorithm ==
    (/\ kpc # "start"
     /\ kin.op = "parse"
     /\ kin.packet_header.tag = kin.tag
     /\ Len(kin.bytes) >= 6
     /\ kin.bytes[1] \in {V4, V6}
     /\ kin.bytes[6] \in UnknownAlgorithms
     /\ pkt.kind = "Ok")
        => IF kin.bytes[1] = V6
           THEN /\ pkt.val.inner.public_params =
                       [variant |-> "Unknown",
                        data |-> SubSeq(kin.bytes, 11, 10 + CountOf(kin.bytes))]
                /\ krest = Drop(kin.bytes, 10 + CountOf(kin.bytes))
           ELSE /\ pkt.val.inner.public_params = [variant |-> "Unknown", data |-> <<>>]
                /\ krest = Drop(kin.bytes, 6)

\* a version 6 key of an unknown algorithm has been parsed, with two octets
\* of key material and an octet after them
C15_Witness ==
    /\ kpc = "built"
    /\ kin.op = "parse"
    /\ kin.bytes[1] = V6
    /\ kin.bytes[6] = UnknownAlg
    /\ pkt.kind = "Ok"
    /\ Len(pkt.val.inner.public_params.data) = 2
    /\ Len(krest) = 1

\* a key packet that a constructor accepted has been written
KeyWritten ==
    /\ kpc \in {"written", "reparsed"}
    /\ kin.op = "new"
    /\ pkt.kind = "Ok"

\* C16 as stated: for every PublicKey and PublicSubkey packet P that the
\* constructor accepts, to_writer writes P and parsing the octets written
\* with the packet header of P yields a packet equal to P.
C16_RoundTrip ==
    KeyWritten => /\ wbytes.kind = "Ok"
                  /\ kpc = "reparsed" => reparsed = pkt

\* C17 as stated: for every packet P (PublicKey, PublicSubkey, Padding) the
\* number of octets to_writer writes is P.write_len().
C17_WriteLen ==
    (kpc \in {"written", "reparsed"} /\ pkt.kind = "Ok")
        => /\ wbytes.kind = "Ok"
           /\ wlen.kind = "Ok"
           /\ Len(wbytes.val) = wlen.val

\* C18 as stated: for every key of version 2, 3, 4 or 6, key_id is the last 8
\* octets of the fingerprint (version 4), the first 8 octets of the
\* fingerprint (version 6), the low 64 bits of the RSA modulus (version 2, 3).
C18_KeyId ==
    (/\ pkt.kind = "Ok"
     /\ pkt.val.tag \in KeyTags
     /\ pkt.val.inner.version \in {V2, V3, V4, V6}
     /\ kid # NoOutcome)
        => /\ kid.kind = "Ok"
           /\ fingerprint(pkt.val.inner).kind = "Ok"
           /\ LET f == fingerprint(pkt.val.inner).val
                  n == pkt.val.inner.public_params.n
              IN  CASE pkt.val.inner.version = V4 -> kid.val = SubSeq(f, Len(f) - 7, Len(f))
                    [] pkt.val.inner.version = V6 -> kid.val = SubSeq(f, 1, 8)
                    [] OTHER -> Len(kid.val) = 8 /\ kid.val = SubSeq(n, Len(n) - 7, Len(n))

\* the body of the key packet, as to_writer writes it
BodyWritten == to_writer(pkt.val)

\* C19: the octets hashed for the fingerprint are 0x99, the length of B in 2
\* octets and B for version 4, and 0x9B, the length of B in 4 octets and B for
\* version 6, B being the body to_writer writes; the length of version 6 is
\* 1 + 4 + 1 + 4 + the length of the parameters; for versions 2 and 3 the
\* octets hashed are the serialized parameters and nothing else.
C19_Imprint ==
    (pkt.kind = "Ok" /\ pkt.val.tag \in KeyTags /\ hashed # NoOutcome)
        => LET k == pkt.val.inner
               params == params_to_writer(k.public_params)
           IN  /\ k.version \in {V2, V3} => hashed = KOk(params)
               /\ (k.version = V4 /\ BodyWritten.kind = "Ok")
                      => hashed = KOk(<<153>> \o BE(Len(BodyWritten.val), 2) \o BodyWritten.val)
               /\ (k.version = V6 /\ BodyWritten.kind = "Ok")
                      => /\ hashed = KOk(<<155>> \o BE(Len(BodyWritten.val), 4)
                                         \o BodyWritten.val)
                         /\ Len(BodyWritten.val) = 1 + 4 + 1 + 4 + Len(params)
                         /\ SubSeq(hashed.val, 2, 5) = BE(1 + 4 + 1 + 4 + Len(params), 4)

\* the octets hashed have been computed for a version 6 key that to_writer writes
C19_Witness ==
    /\ pkt.kind = "Ok"
    /\ pkt.val.tag \in KeyTags
    /\ pkt.val.inner.version = V6
    /\ BodyWritten.kind = "Ok"
    /\ hashed.kind = "Ok"
    /\ Len(hashed.val) > 15

\* C20 as stated: a framed Padding packet, of the old and of the new header
\* format, is parsed and serializes back to the octets it was parsed from,
\* header included; and Padding::from_buf of the header of P and of the
\* octets P.to_writer writes is P, for every Padding packet P.
C20_PaddingRoundTrip ==
    /\ (kpc # "start" /\ kin.op = "padding_parse") => pkt.kind = "Ok"
    /\ (kpc \in {"written", "reparsed"} /\ kin.op = "padding_parse")
           => wframed = KOk(kin.bytes)
    /\ (kpc = "reparsed" /\ pkt.val.tag = "Padding") => reparsed = pkt

\* a header has been written by Version::write_header
HeaderWritten == kpc = "header" /\ kin.op = "write_header"

\* the header decoded from the octets written
HeaderRead == header_from_buf(wframed.val)

\* C21: for both header versions, every tag of the Tag enumeration and every
\* body length, the octets written by Version::write_header decode to the same
\* version, tag and Fixed(length): bit 7 of the first octet is set, bit 6 is
\* set exactly for New, the tag is in bits 5-2 (Old) or 5-0 (New), and the
\* length octets decode to the length written.
C21_WriteHeaderDecodes ==
    HeaderWritten =>
        /\ wframed.val[1] >= 128
        /\ (wframed.val[1] % 128 >= 64) <=> (kin.version = "New")
        /\ HeaderRead.ok
        /\ HeaderRead.rest = <<>>
        /\ HeaderRead.val = [version |-> kin.version, tag |-> kin.tag,
                             length |-> SomeOpt(kin.len)]

\* the headers Version::write_header writes decode to what was written when
\* the tag fits the four tag bits of the old format
C21_FitsOldFormat ==
    (HeaderWritten /\ (kin.version = "New" \/ kin.tag < 16)) =>
        /\ HeaderRead.ok
        /\ HeaderRead.rest = <<>>
        /\ HeaderRead.val = [version |-> kin.version, tag |-> kin.tag,
                             length |-> SomeOpt(kin.len)]

\* PkeskBytes::from_buf has returned the values of an X25519 or X448 PKESK
EskParsed ==
    /\ kpc = "esk" /\ kin.op = "esk_parse"
    /\ pkesk.kind = "Ok"
    /\ pkesk.val.variant \in {"X25519", "X448"}

\* encrypt has returned the values of an X25519 or X448 PKESK
EskEncrypted ==
    /\ kpc = "esk" /\ kin.op = "encrypt"
    /\ pkesk.kind = "Ok"
    /\ pkesk.val.variant \in {"X25519", "X448"}

\* the size octet of the payload parsed, after the ephemeral key
SizeOctet == kin.bytes[Len(pkesk.val.ephemeral) + 1]

\* C22: for X25519 and X448 PKESK payloads the session-cipher algorithm octet
\* is present exactly in version 3.  Parsing a v3 payload reads one algorithm
\* octet before the wrapped key and takes (len - 1) key octets; parsing a v6
\* payload reads no algorithm octet and takes len key octets.  Encryption with
\* EskType::V3_4 strips plain[0] into sym_alg and wraps the rest; with
\* EskType::V6 sym_alg is None and the whole plain text is wrapped.
C22_SymAlgOctet ==
    /\ EskParsed =>
        /\ pkesk.val.sym_alg.some <=> (kin.version = 3)
        /\ Len(pkesk.val.session_key) = IF kin.version = 3 THEN SizeOctet - 1 ELSE SizeOctet
        /\ kin.bytes = pkesk.val.ephemeral \o <<SizeOctet>>
                       \o (IF kin.version = 3 THEN <<pkesk.val.sym_alg.v>> ELSE <<>>)
                       \o pkesk.val.session_key \o krest
    /\ EskEncrypted =>
        /\ pkesk.val.sym_alg = IF kin.typ = "V3_4" THEN SomeOpt(kin.plain[1]) ELSE NoneOpt
        /\ pkesk.val.session_key =
              Fill(8, kin.draw) \o (IF kin.typ = "V3_4" THEN Drop(kin.plain, 1) ELSE kin.plain)

\* a v3 X448 payload of an algorithm octet and a wrapped key of one octet has
\* been parsed
C22_Witness ==
    /\ EskParsed
    /\ kin.alg = X448 /\ kin.version = 3
    /\ SizeOctet = 2
    /\ pkesk.val.sym_alg = SomeOpt(9)
    /\ Len(pkesk.val.session_key) = 1

\* a key that PubKeyInner::new accepted, alone or in a key packet
KeyAccepted == pkt.kind = "Ok" /\ pkt.val.tag \in KeyTags

\* C28 as stated: every key of version 2 or 3 that PubKeyInner::new accepts
\* has RSA parameters, so that key_id returns the low 64 bits of the modulus
\* and never reaches its 'invalid key constructed' panic.
C28_OldKeysAreRsa ==
    (KeyAccepted /\ pkt.val.inner.version \in {V2, V3})
        => /\ pkt.val.inner.public_params.variant = "RSA"
           /\ kid # Panic("invalid key constructed")

\* C29 as stated: every key that PubKeyInner::new accepts has an expiration
\* exactly when its version is 2 or 3: to_writer of a version 2 or 3 key never
\* reaches the 'old key versions have an expiration' panic, and a key of
\* version 4 or 6 has no expiration that to_writer would leave out.
C29_ExpirationByVersion ==
    /\ KeyAccepted
          => (pkt.val.inner.expiration.some <=> (pkt.val.inner.version \in {V2, V3}))
    /\ (KeyAccepted /\ kpc \in {"written", "reparsed"})
          => wbytes # Panic("old key versions have an expiration")

\* the keys the parser yields have an expiration exactly in versions 2 and 3
C29_Parsed ==
    (KeyAccepted /\ kin.op = "parse")
        => (pkt.val.inner.expiration.some <=> (pkt.val.inner.version \in {V2, V3}))

(***************************************************************************)
(* Further properties of the recognizer (Spec) and of the container       *)
(* (SpecAead).                                                             *)
(***************************************************************************)
\* the ESK packets among the packets s
EskPackets(s) == SelectSeq(s, LAMBDA p : p.tag \in EskTags)

\* C23 as stated: the parser holds at most 64 ESK packets before the edata
\* packet: `esks` never grows beyond 64, and a stream with more than 64 ESK
\* packets before the edata packet fails with an error.
C23_EskBound ==
    /\ Len(esks) <= 64
    /\ (pc = "done" /\ Len(EskPackets(consumed)) > 64) => result.kind = "Err"

\* the first min(1 << (s + 6), n) octets of n octets, n being below 2^31
ChunkOf(s, n) == IF s + 6 >= 31 THEN n ELSE Min(2 ^ (s + 6), n)

\* C24 as stated: for every chunk size octet the chunk length that encrypt
\* and decrypt use is 1 << (chunk_size + 6): the shift of expand_chunk_size
\* does not panic, and the first chunk that encrypt_seipdv2 and decrypt
\* process is of that length (or the whole plaintext, when shorter).
C24_ChunkLength ==
    /\ enc_result.kind # "Panic"
    /\ dec_result.err # "attempt to shift left with overflow"
    /\ (apc = "enc_loop" /\ chunk_index = 1)
           => pos = ChunkOf(inp.chunk_size, Len(inp.plaintext))
    /\ (apc = "dec_loop" /\ chunk_index = 1 /\ altered = "no")
           => Len(out) = ChunkOf(packet.chunk_size, Len(inp.plaintext))

\* the chunk length of the chunk size octets whose shift does not overflow
C24_WithinShift ==
    (~shift_overflows(inp.chunk_size)) =>
        /\ enc_result.kind # "Panic"
        /\ dec_result.err # "attempt to shift left with overflow"
        /\ (apc = "enc_loop" /\ chunk_index = 1)
               => pos = ChunkOf(inp.chunk_size, Len(inp.plaintext))
        /\ (apc = "dec_loop" /\ chunk_index = 1 /\ altered = "no")
               => Len(out) = ChunkOf(packet.chunk_size, Len(inp.plaintext))

SigTags == {"Signature", "OnePassSignature"}

\* the stream has ended after a Signature or One-Pass-Signature packet that
\* only Marker and Padding packets follow
NoInnerMessage ==
    /\ pc = "done"
    /\ eof
    /\ \E i \in 1..Len(consumed) :
        /\ consumed[i].tag \in SigTags
        /\ \A j \in (i + 1)..Len(consumed) : consumed[j].tag \in SkipTags

\* every Signed and SignedOnePass node of m holds a message
RECURSIVE Recognized(_)
Recognized(m) ==
    IF m.variant \in {"Signed", "SignedOnePass"} THEN Recognized(m.inner)
    ELSE m.variant \in {"Literal", "Compressed", "Encrypted"}

\* C25: a Signature or One-Pass-Signature packet that no inner message
\* follows (the stream ends, or only Marker and Padding packets follow) makes
\* the parser fail, with 'missing next packet' when every packet was read;
\* a Signed or SignedOnePass message is only returned with an inner message
\* that was recognized.
C25_SignatureNeedsMessage ==
    /\ NoInnerMessage => result.kind = "Err"
    /\ (NoInnerMessage /\ \A j \in 1..Len(consumed) :
                              consumed[j].ok /\ consumed[j].tag \in SigTags \cup SkipTags)
           => result = Err("missing next packet")
    /\ Returned => Recognized(result.msg)

\* a Signature packet and a Marker packet were read, and the stream ended
C25_Witness ==
    /\ NoInnerMessage
    /\ Len(consumed) = 2
    /\ consumed[1].tag = "Signature"
    /\ consumed[2].tag = "Marker"
    /\ result = Err("missing next packet")

\* decrypt was called on a packet whose data was cut short, the chunk size
\* octet being one whose shift does not overflow
CutDecrypted ==
    /\ altered = "cut"
    /\ apc \in {"dec_done", "panic"}
    /\ ~shift_overflows(packet.chunk_size)

\* C26 as stated: decrypt of a SEIPDv2 packet is total on malformed input: for
\* every length of the data, shorter than one tag and with a last chunk
\* shorter than a tag included, it returns an error and does not panic in
\* chunk.len() - tag_size or in main_len - num_chunks * tag_size.
C26_DecryptTotal ==
    CutDecrypted => dec_result.kind = "Err"

\* decrypt of data shorter than the tag of the AEAD mode returns InvalidInput
\* and makes no AEAD call
C26_ShorterThanTag ==
    (CutDecrypted /\ Len(packet.data) < tag_size(packet.aead))
        => dec_result = AErr("InvalidInput") /\ calls = <<>>

\* decrypt was called on a packet that lost its last chunks and their tags
DroppedDecrypted == altered = "dropped" /\ apc \in {"dec_done", "panic"}

\* C27: removing one or more complete trailing (chunk, tag) pairs from the
\* data of a SEIPDv2 packet, the final tag being kept, makes decrypt fail:
\* no plaintext is returned, and when decrypt returns, every chunk that was
\* kept has verified and the final tag has not.
C27_DroppedChunks ==
    /\ DroppedDecrypted => (dec_result.kind # "Ok" /\ out = <<>>)
    /\ (DroppedDecrypted /\ apc = "dec_done")
           => /\ dec_result = AErr("authentication")
              /\ pos = Len(main_chunks)
              /\ Len(calls) = chunk_index + 1
              /\ Len(main_chunks) < Len(inp.plaintext) + chunk_index * tag_size(packet.aead)

\* the second of two chunks was removed with its tag: the first chunk
\* verified, the final tag did not
C27_Witness ==
    /\ DroppedDecrypted
    /\ packet.chunk_size = 0
    /\ Len(inp.plaintext) = expand_chunk_size(0) + 1
    /\ chunk_index = 1
    /\ dec_result = AErr("authentication")

\* one turn of a loop of `next` (lines 20-155 and 41-88): the call returns, or
\* the turn has taken the next packet of the stream
Turn ==
    \/ pc' = "done"
    \/ /\ pc' \in {"top", "esk"}
       /\ \E p \in PacketAlphabet : consumed' = Append(consumed, p)

\* `next` calls itself (lines 98 and 115) in a turn that has taken a packet,
\* the signature packet its caller keeps
CallsAfterPacket ==
    Len(stack') > Len(stack)
        => /\ Len(stack') = Len(stack) + 1
           /\ consumed' = Append(consumed, Last(stack'))

\* the packets taken so far stay taken, in the order of the stream
InStreamOrder ==
    /\ Len(consumed') >= Len(consumed)
    /\ SubSeq(consumed', 1, Len(consumed)) = consumed
    /\ eof => (eof' /\ consumed' = consumed)

\* the stream has ended and held Marker and Padding packets only
OnlySkipped ==
    /\ eof
    /\ \A j \in 1..Len(consumed) : consumed[j].tag \in SkipTags /\ consumed[j].ok

\* the call has one result when it has ended and none before
OneResult ==
    /\ (pc = "done") <=> (result # NoResult)
    /\ pc = "done"
          => /\ result.kind \in {"Some", "None", "Err"}
             /\ (result.kind = "Some") <=> (result.msg # <<>>)
             /\ (result.kind = "Err") <=> (result.err # "")
             /\ (result.kind = "None") <=> OnlySkipped
             /\ stack = <<>>

\* C30: `next` terminates on every finite packet stream.  Every turn of its
\* loops that does not return takes one packet of the stream, and every call
\* of `next` by itself is made in a turn that took a packet; the packets are
\* taken in the order of the stream; the call ends, and it ends with exactly
\* one of a message, None (the stream has ended and held Marker and Padding
\* packets only) or an error.
C30_NextTerminates ==
    /\ [][Turn /\ CallsAfterPacket /\ InStreamOrder]_vars
    /\ []OneResult
    /\ <>(pc = "done")

\* a call that has ended with a message after a call of itself and a turn
\* that skipped a Marker packet
C30_Witness ==
    /\ pc = "done"
    /\ Len(consumed) >= 3
    /\ consumed[1].tag = "Signature"
    /\ consumed[2].tag = "Marker"
    /\ result.kind = "Some"
    /\ result.msg.variant = "Signed"

==============================================================================
